---- MODULE Spec2Model ----
(***************************************************************************)
(* Model of the CSV import pipeline of the dashboard                        *)
(* (src/src/components/tables/CsvUpload.tsx).                               *)
(*                                                                          *)
(* Text that the code inspects character by character (CSV cell values) is  *)
(* a sequence of one-character strings; text that the code only builds and  *)
(* shows (messages) is a TLA+ string built with \o.  JavaScript values that *)
(* can be null, a number, a string or an array are tagged records           *)
(* [t |-> tag, v |-> payload].                                              *)
(***************************************************************************)
EXTENDS Integers, Sequences, FiniteSets, TLC

\* ------------------------------------------------------------------ bounds
\* file selections (handleFileChange) in one session
MaxSelects == 2
\* activations of the Upload button in one session
MaxUploads == 2

\* --------------------------------------------------------- JavaScript values
NullV == [t |-> "null"]
StrV(cs) == [t |-> "str", v |-> cs]
NumV(n) == [t |-> "num", v |-> n]
ArrV(items) == [t |-> "arr", v |-> items]

\* a JS string shown in a message: the concatenation of its characters
RECURSIVE Show(_)
Show(cs) == IF cs = <<>> THEN "" ELSE Head(cs) \o Show(Tail(cs))

Digits == {"0", "1", "2", "3", "4", "5", "6", "7", "8", "9"}

DigitVal(c) ==
    CASE c = "0" -> 0 [] c = "1" -> 1 [] c = "2" -> 2 [] c = "3" -> 3
      [] c = "4" -> 4 [] c = "5" -> 5 [] c = "6" -> 6 [] c = "7" -> 7
      [] c = "8" -> 8 [] c = "9" -> 9

\* \s of a regular expression, and the white space String.prototype.trim and
\* Number() strip; the model's alphabet has the space as its only white space
IsSpace(c) == c = " "

RECURSIVE TrimStart(_)
TrimStart(cs) ==
    IF cs # <<>> /\ IsSpace(Head(cs)) THEN TrimStart(Tail(cs)) ELSE cs

RECURSIVE TrimEnd(_)
TrimEnd(cs) ==
    IF cs # <<>> /\ IsSpace(cs[Len(cs)])
    THEN TrimEnd(SubSeq(cs, 1, Len(cs) - 1))
    ELSE cs

\* String.prototype.trim
Trim(cs) == TrimEnd(TrimStart(cs))

RECURSIVE DigitsValue(_)
DigitsValue(cs) ==
    IF cs = <<>> THEN 0
    ELSE 10 * DigitsValue(SubSeq(cs, 1, Len(cs) - 1)) + DigitVal(cs[Len(cs)])

\* isNaN(Number(value)) for a string: Number strips white space, reads the
\* empty string as 0 and a run of decimal digits as its value; every other
\* string of the model's alphabet (letters, "@", ".", ",", brackets, inner
\* spaces) is NaN.  Signs, fractions, exponents and radix prefixes are outside
\* the alphabet.
IsNaNNumber(cs) == \E i \in 1..Len(Trim(cs)) : Trim(cs)[i] \notin Digits

\* Number(value), where it is not NaN
ToNumber(cs) == DigitsValue(Trim(cs))

\* /^[^\s@]+@[^\s@]+\.[^\s@]+$/.test(cs)
NoSpaceAt(cs) ==
    cs # <<>> /\ \A i \in 1..Len(cs) : ~IsSpace(cs[i]) /\ cs[i] # "@"

\* the pattern without the dot and the part after it: /^[^\s@]+@[^\s@]+$/
EmailTestNoTld(cs) ==
    \E i \in 1..Len(cs) :
        /\ cs[i] = "@"
        /\ NoSpaceAt(SubSeq(cs, 1, i - 1))
        /\ NoSpaceAt(SubSeq(cs, i + 1, Len(cs)))

EmailTest(cs) ==
    \E i \in 1..Len(cs) : \E j \in (i + 1)..Len(cs) :
        /\ cs[i] = "@"
        /\ cs[j] = "."
        /\ NoSpaceAt(SubSeq(cs, 1, i - 1))
        /\ NoSpaceAt(SubSeq(cs, i + 1, j - 1))
        /\ NoSpaceAt(SubSeq(cs, j + 1, Len(cs)))

\* ------------------------------------------------------------------- rows
\* A RawRecord is a function from the column names of the header to cell
\* text.  row[field] of a column the header lacks is undefined.
Has(row, field) == field \in DOMAIN row

\* JavaScript truthiness of row[field]: defined and not the empty string
Truthy(row, field) == Has(row, field) /\ row[field] # <<>>

requiredFields ==
    <<"first_name", "last_name", "student_email", "program_id", "center_id">>

numericFields ==
    <<"program_id", "program_2_id", "center_id", "number_of_sessions",
      "educator_employee_id", "secondary_educator_employee_id">>

\* the required-field loop without the trim: only !row[field]
RECURSIVE RequiredErrorsNoTrim(_, _, _)
RequiredErrorsNoTrim(row, index, fields) ==
    IF fields = <<>> THEN <<>>
    ELSE (IF ~Truthy(row, Head(fields))
          THEN <<[row |-> index + 1, rule |-> "required",
                  field |-> Head(fields),
                  message |-> "Row " \o ToString(index + 1)
                              \o ": Missing required field \""
                              \o Head(fields) \o "\""]>>
          ELSE <<>>)
         \o RequiredErrorsNoTrim(row, index, Tail(fields))

\* the errors of one rule over a list of fields, in the order of the list
RECURSIVE RequiredErrors(_, _, _)
RequiredErrors(row, index, fields) ==
    IF fields = <<>> THEN <<>>
    ELSE (IF ~Truthy(row, Head(fields)) \/ Trim(row[Head(fields)]) = <<>>
          THEN <<[row |-> index + 1, rule |-> "required",
                  field |-> Head(fields),
                  message |-> "Row " \o ToString(index + 1)
                              \o ": Missing required field \""
                              \o Head(fields) \o "\""]>>
          ELSE <<>>)
         \o RequiredErrors(row, index, Tail(fields))

RECURSIVE NumericErrors(_, _, _)
NumericErrors(row, index, fields) ==
    IF fields = <<>> THEN <<>>
    ELSE (IF Truthy(row, Head(fields)) /\ IsNaNNumber(row[Head(fields)])
          THEN <<[row |-> index + 1, rule |-> "numeric",
                  field |-> Head(fields),
                  message |-> "Row " \o ToString(index + 1)
                              \o ": Invalid numeric value for \""
                              \o Head(fields) \o "\""]>>
          ELSE <<>>)
         \o NumericErrors(row, index, Tail(fields))

EmailErrors(row, index, field) ==
    IF Truthy(row, field) /\ ~EmailTest(row[field])
    THEN <<[row |-> index + 1, rule |-> "email", field |-> field,
            message |-> "Row " \o ToString(index + 1) \o ": Invalid "
                        \o field \o " format"]>>
    ELSE <<>>

\* the duplicate checks of one row; seenIds holds the identifiers of the
\* rows before it, existingIds the values fetched from the store
DuplicateErrors(row, index, seenIds, existingIds) ==
    IF ~Truthy(row, "student_id") THEN <<>>
    ELSE (IF row["student_id"] \in seenIds
          THEN <<[row |-> index + 1, rule |-> "duplicate_in_file",
                  field |-> "student_id",
                  message |-> "Row " \o ToString(index + 1)
                              \o ": Duplicate student_id \""
                              \o Show(row["student_id"])
                              \o "\" found in CSV file"]>>
          ELSE <<>>)
         \o
         (IF StrV(row["student_id"]) \in existingIds
          THEN <<[row |-> index + 1, rule |-> "duplicate_in_store",
                  field |-> "student_id",
                  message |-> "Row " \o ToString(index + 1)
                              \o ": student_id \""
                              \o Show(row["student_id"])
                              \o "\" already exists in the database"]>>
          ELSE <<>>)

\* the body of rows.forEach with the numeric check moved to the front
RowErrorsNumericFirst(row, index, seenIds, existingIds) ==
    NumericErrors(row, index, numericFields)
    \o RequiredErrors(row, index, requiredFields)
    \o DuplicateErrors(row, index, seenIds, existingIds)
    \o EmailErrors(row, index, "student_email")
    \o EmailErrors(row, index, "parents_email")

\* the body of rows.forEach leaving the row at its first failing rule
RowErrorsShortCircuit(row, index, seenIds, existingIds) ==
    LET required == RequiredErrors(row, index, requiredFields)
        duplicate == DuplicateErrors(row, index, seenIds, existingIds)
        email == EmailErrors(row, index, "student_email")
                 \o EmailErrors(row, index, "parents_email")
    IN  IF required # <<>> THEN required
        ELSE IF duplicate # <<>> THEN duplicate
        ELSE IF email # <<>> THEN email
        ELSE NumericErrors(row, index, numericFields)

\* the body of rows.forEach for one row (index is 0-based, as in the code)
RowErrors(row, index, seenIds, existingIds) ==
    RequiredErrors(row, index, requiredFields)
    \o DuplicateErrors(row, index, seenIds, existingIds)
    \o EmailErrors(row, index, "student_email")
    \o EmailErrors(row, index, "parents_email")
    \o NumericErrors(row, index, numericFields)

\* seenIds with the row's own identifier added before the row is checked
SeenIdsThroughRow(rows, n) ==
    {rows[k]["student_id"] :
        k \in {m \in 1..(n + 1) : Truthy(rows[m], "student_id")}}

\* seenIds after the first n rows
SeenIds(rows, n) ==
    {rows[k]["student_id"] : k \in {m \in 1..n : Truthy(rows[m], "student_id")}}

RECURSIVE ValidateFrom(_, _, _)
ValidateFrom(rows, k, existingIds) ==
    IF k > Len(rows) THEN <<>>
    ELSE RowErrors(rows[k], k - 1, SeenIds(rows, k - 1), existingIds)
         \o ValidateFrom(rows, k + 1, existingIds)

validateStudentData(rows, existingIds) == ValidateFrom(rows, 1, existingIds)

\* --------------------------------------------------------------- coercion
coercionNumericFields ==
    {"program_id", "program_2_id", "center_id", "number_of_sessions",
     "educator_employee_id", "secondary_educator_employee_id", "student_id",
     "enrollment_year"}

arrayFields == {"days_of_week", "timings"}

dateFields == {"dob", "created_at"}

\* value.split(','): the pieces between the commas, in order
RECURSIVE SplitComma(_, _)
SplitComma(cs, piece) ==
    IF cs = <<>> THEN <<piece>>
    ELSE IF Head(cs) = "," THEN <<piece>> \o SplitComma(Tail(cs), <<>>)
    ELSE SplitComma(Tail(cs), Append(piece, Head(cs)))

\* value.split(',') without the trim of each piece
SplitNoTrim(cs) ==
    LET parts == SplitComma(cs, <<>>)
    IN  [k \in 1..Len(parts) |-> StrV(parts[k])]

SplitAndTrim(cs) ==
    LET parts == SplitComma(cs, <<>>)
    IN  [k \in 1..Len(parts) |-> StrV(Trim(parts[k]))]

HasComma(cs) == \E i \in 1..Len(cs) : cs[i] = ","

Bracketed(cs) == cs # <<>> /\ Head(cs) = "[" /\ cs[Len(cs)] = "]"

\* JSON.parse of a bracketed text.  Over the model's alphabet (no quote
\* character) the texts that parse are the empty list and lists of
\* non-negative integers; every other bracketed text makes JSON.parse throw.
JsonInner(cs) == SubSeq(cs, 2, Len(cs) - 1)

JsonItems(cs) == SplitComma(JsonInner(cs), <<>>)

JsonParses(cs) ==
    \/ Trim(JsonInner(cs)) = <<>>
    \/ \A k \in 1..Len(JsonItems(cs)) :
          /\ Trim(JsonItems(cs)[k]) # <<>>
          /\ ~IsNaNNumber(JsonItems(cs)[k])

JsonParse(cs) ==
    IF Trim(JsonInner(cs)) = <<>> THEN ArrV(<<>>)
    ELSE ArrV([k \in 1..Len(JsonItems(cs)) |-> NumV(ToNumber(JsonItems(cs)[k]))])

\* new Date(value): the texts of the model's alphabet that name an instant
\* are the ISO calendar dates dddd-dd-dd with a month 01..12 and a day 01..31
IsoDateShape(cs) ==
    /\ Len(cs) = 10
    /\ cs[5] = "-" /\ cs[8] = "-"
    /\ \A i \in {1, 2, 3, 4, 6, 7, 9, 10} : cs[i] \in Digits
    /\ DigitsValue(SubSeq(cs, 6, 7)) \in 1..12
    /\ DigitsValue(SubSeq(cs, 9, 10)) \in 1..31

\* date.toISOString() of such a date
ToISOString(cs) ==
    cs \o <<"T", "0", "0", ":", "0", "0", ":", "0", "0", ".", "0", "0", "0", "Z">>

\* new Date().toISOString(): the time of the upload, one fixed text
NowISOString == <<"n", "o", "w">>

\* the cell coercion trimming the text of a plain column
CoerceValueTrimDefault(key, value) ==
    IF value = <<>> THEN NullV
    ELSE IF key \in coercionNumericFields /\ ~IsNaNNumber(value)
    THEN NumV(ToNumber(value))
    ELSE IF key \in arrayFields
    THEN (IF Bracketed(value)
          THEN (IF JsonParses(value) THEN JsonParse(value)
                ELSE ArrV(<<StrV(value)>>))
          ELSE IF HasComma(value) THEN ArrV(SplitAndTrim(value))
          ELSE ArrV(<<StrV(value)>>))
    ELSE IF key \in dateFields
    THEN (IF IsoDateShape(value) THEN StrV(ToISOString(value)) ELSE StrV(value))
    ELSE StrV(Trim(value))

\* the cell coercion giving null for a numeric cell that is not a number
CoerceValueNaNToNull(key, value) ==
    IF value = <<>> THEN NullV
    ELSE IF key \in coercionNumericFields
    THEN (IF IsNaNNumber(value) THEN NullV ELSE NumV(ToNumber(value)))
    ELSE IF key \in arrayFields
    THEN (IF Bracketed(value)
          THEN (IF JsonParses(value) THEN JsonParse(value)
                ELSE ArrV(<<StrV(value)>>))
          ELSE IF HasComma(value) THEN ArrV(SplitAndTrim(value))
          ELSE ArrV(<<StrV(value)>>))
    ELSE IF key \in dateFields
    THEN (IF IsoDateShape(value) THEN StrV(ToISOString(value)) ELSE StrV(value))
    ELSE StrV(value)

\* the body of Object.entries(row).forEach for one cell
CoerceValue(key, value) ==
    IF value = <<>> THEN NullV
    ELSE IF key \in coercionNumericFields /\ ~IsNaNNumber(value)
    THEN NumV(ToNumber(value))
    ELSE IF key \in arrayFields
    THEN (IF Bracketed(value)
          THEN (IF JsonParses(value) THEN JsonParse(value)
                ELSE ArrV(<<StrV(value)>>))
          ELSE IF HasComma(value) THEN ArrV(SplitAndTrim(value))
          ELSE ArrV(<<StrV(value)>>))
    ELSE IF key \in dateFields
    THEN (IF IsoDateShape(value) THEN StrV(ToISOString(value)) ELSE StrV(value))
    ELSE StrV(value)

\* JavaScript falsiness of a coerced value
Falsy(v) ==
    \/ v.t = "null"
    \/ v.t = "str" /\ v.v = <<>>
    \/ v.t = "num" /\ v.v = 0

\* the callback of rows.map stamping created_at whatever the row carries
ProcessRowAtAlwaysStamp(row, now) ==
    [key \in DOMAIN row \cup {"created_at"} |->
        IF key = "created_at" THEN StrV(now)
        ELSE CoerceValue(key, row[key])]

\* the callback of rows.map: coerce every cell, then stamp created_at with
\* now, the text new Date().toISOString() gives when the callback runs
ProcessRowAt(row, now) ==
    LET newRow == [key \in DOMAIN row |-> CoerceValue(key, row[key])]
    IN  IF "created_at" \notin DOMAIN newRow \/ Falsy(newRow["created_at"])
        THEN [key \in DOMAIN row \cup {"created_at"} |->
                IF key = "created_at" THEN StrV(now) ELSE newRow[key]]
        ELSE newRow

\* the callback within one upload, whose time is one fixed text
ProcessRow(row) == ProcessRowAt(row, NowISOString)

ProcessRows(rows) == [k \in 1..Len(rows) |-> ProcessRow(rows[k])]

\* ------------------------------------------------------------------ files
\* One line of a CSV file after the header, as Papa.parse reads it in header
\* mode: the row it yields and the problem it reports for the line ("" when
\* the line is well formed).  A line with too few cells yields a row lacking
\* the trailing columns; one with too many yields the extra cells under
\* __parsed_extra.
GoodLine(row) == [row |-> row, err |-> ""]

StudentRow(first, last, id) ==
    [first_name |-> first, last_name |-> last, student_id |-> id,
     student_email |-> <<"a", "@", "b", ".", "c">>,
     program_id |-> <<"7">>, center_id |-> <<"9">>]

LineA == GoodLine(StudentRow(<<"A", "l">>, <<"L", "i">>, <<"1">>))

LineB == GoodLine(StudentRow(<<"B", "o">>, <<"R", "a">>, <<"2">>))

LineBlankLast == GoodLine(StudentRow(<<"C", "y">>, <<>>, <<"2">>))

LineTooFew ==
    [row |-> [first_name |-> <<"D", "i">>],
     err |-> "Too few fields: expected 6 fields but parsed 1"]

LineTooMany ==
    [row |-> [first_name |-> <<"E", "d">>, last_name |-> <<"X">>,
              student_id |-> <<"3">>,
              student_email |-> <<"e", "@", "b", ".", "c">>,
              program_id |-> <<"7">>, center_id |-> <<"9">>,
              __parsed_extra |-> <<"x">>],
     err |-> "Too many fields: expected 6 fields but parsed 7"]

CsvFile(lines) == [t |-> "file", type |-> "text/csv", lines |-> lines]

\* the files the user can pick in a session
FileEmpty == CsvFile(<<>>)

FileTwoValid == CsvFile(<<LineA, LineB>>)

\* row 2 has a blank last_name, row 3 repeats the student_id of row 1
FileBlankAndRepeat == CsvFile(<<LineA, LineBlankLast, LineA>>)

\* two malformed lines after a good one
FileMalformed == CsvFile(<<LineA, LineTooFew, LineTooMany>>)

\* a selection handleFileChange turns down: a file of another type
OtherFile == [t |-> "file", type |-> "image/png", lines |-> <<>>]

FilePool ==
    {FileEmpty, FileTwoValid, FileBlankAndRepeat, FileMalformed,
     OtherFile}

Min(a, b) == IF a < b THEN a ELSE b

ErrorsOf(lines) ==
    LET bad == SelectSeq(lines, LAMBDA l : l.err # "")
    IN  [k \in 1..Len(bad) |-> bad[k].err]

\* Papa.parse(text, {header: true, skipEmptyLines: true, preview}): the rows
\* of the first `preview` lines (of all lines when preview is 0) and the
\* problems reported for those lines, in file order
PapaParse(lines, preview) ==
    LET n == IF preview > 0 THEN Min(preview, Len(lines)) ELSE Len(lines)
        read == SubSeq(lines, 1, n)
    IN  [data |-> [k \in 1..n |-> read[k].row], errors |-> ErrorsOf(read)]

PreviewRows == 3

\* --------------------------------------------------------------- messages
TextV(s) == [t |-> "text", v |-> s]

\* err.message || fallback
MessageOr(message, fallback) == IF message = "" THEN fallback ELSE message

RECURSIVE JoinLines(_)
JoinLines(msgs) ==
    IF msgs = <<>> THEN ""
    ELSE IF Len(msgs) = 1 THEN Head(msgs)
    ELSE Head(msgs) \o "\n" \o JoinLines(Tail(msgs))

ShownErrors == 5

\* slice(0, 4) and length - 4 in place of slice(0, 5) and length - 5
ValidationLinesOffByOne(errors) ==
    <<"Validation errors found:">>
    \o [k \in 1..Min(ShownErrors - 1, Len(errors)) |-> errors[k].message]
    \o (IF Len(errors) > ShownErrors
        THEN <<"...and " \o ToString(Len(errors) - (ShownErrors - 1))
               \o " more errors">>
        ELSE <<>>)

\* the lines of the text handleUpload shows for a non-empty list of
\* validation errors: the heading, validationErrors.slice(0, 5) and, past
\* five errors, the count of the rest
ValidationLines(errors) ==
    <<"Validation errors found:">>
    \o [k \in 1..Min(ShownErrors, Len(errors)) |-> errors[k].message]
    \o (IF Len(errors) > ShownErrors
        THEN <<"...and " \o ToString(Len(errors) - ShownErrors)
               \o " more errors">>
        ELSE <<>>)

\* the text itself: the lines joined with "\n"
ValidationText(errors) == JoinLines(ValidationLines(errors))

\* A message of the backing store is a sequence of fragments;
\* message.includes(fragment) looks for the fragment among them and the text
\* shown is their concatenation.
RECURSIVE Concat(_)
Concat(frags) == IF frags = <<>> THEN "" ELSE Head(frags) \o Concat(Tail(frags))

Includes(frags, fragment) == \E k \in 1..Len(frags) : frags[k] = fragment

FriendlyDuplicateText ==
    "Some student IDs in your file already exist in the database. Please check and try again."

\* ------------------------------------------------------------------ state
VARIABLES
    tableName,      \* prop: the entity kind of this CsvUpload
    onCloseGiven,   \* prop: whether onClose was passed
    file,           \* useState: the selected file, or null
    isUploading,    \* useState
    error,          \* useState: the error text shown, or null
    previewData,    \* useState: the rows of the preview, or null
    previews,       \* the generatePreview calls awaiting file.text()
    attempts,       \* the handleUpload calls in flight
    last,           \* the most recent handleUpload call that ended
    db,             \* the student_id values of the rows in the store
    nSelect,        \* file selections so far
    nUpload,        \* Upload activations so far
    arg,            \* the input of a function studied on its own, or null
    result          \* what the function returned for arg, or null

vars ==
    <<tableName, onCloseGiven, file, isUploading, error, previewData,
      previews, attempts, last, db, nSelect, nUpload, arg, result>>

TableNames == {"students", "educators", "employees", "courses"}

\* what the store may hold when the session starts
DbPool == {{}, {StrV(<<"1">>)}, {NumV(2)}}

NoResponse == [kind |-> "none", cause |-> "none", message |-> <<>>]

\* no handleUpload call has ended since the last click on Upload
NoAttempt ==
    [outcome |-> "none", stage |-> "none", lines |-> <<>>, log |-> <<>>,
     nFetch |-> 0, fetched |-> "none", existingIds |-> {}, calls |-> <<>>,
     errors |-> <<>>, signals |-> <<>>, text |-> "", response |-> NoResponse]

Init ==
    /\ tableName \in TableNames
    /\ onCloseGiven \in BOOLEAN
    /\ file = NullV
    /\ isUploading = FALSE
    /\ error = NullV
    /\ previewData = NullV
    /\ previews = <<>>
    /\ attempts = <<>>
    /\ last = NoAttempt
    /\ db \in (IF tableName = "students" THEN DbPool ELSE {{}})
    /\ nSelect = 0
    /\ nUpload = 0
    /\ arg = NullV
    /\ result = NullV

Remove(seq, i) == SubSeq(seq, 1, i - 1) \o SubSeq(seq, i + 1, Len(seq))

\* --------------------------------------------------------- file selection
\* onChange of the file input; selected is e.target.files[0]
handleFileChange(selected) ==
    /\ nSelect < MaxSelects
    /\ nSelect' = nSelect + 1
    /\ IF selected.type = "text/csv"
       THEN /\ file' = selected
            /\ error' = NullV
            /\ previews' = Append(previews, selected)
            /\ UNCHANGED previewData
       ELSE /\ file' = NullV
            /\ previewData' = NullV
            /\ error' = TextV("Please select a valid CSV file")
            /\ UNCHANGED previews
    /\ UNCHANGED <<arg, result>>
    /\ UNCHANGED <<tableName, onCloseGiven, isUploading, attempts, last, db,
                   nUpload>>

\* the outcomes of await file.text(): the text, or a rejection whose error
\* carries a message or none
ReadOutcomes ==
    {[ok |-> TRUE, message |-> ""],
     [ok |-> FALSE, message |-> "The file could not be read"],
     [ok |-> FALSE, message |-> ""]}

\* generatePreview from the point where file.text() settles
generatePreview(i, read) ==
    /\ i \in 1..Len(previews)
    /\ previews' = Remove(previews, i)
    /\ LET results == PapaParse(previews[i].lines, PreviewRows)
       IN  IF ~read.ok
           THEN /\ error' = TextV(MessageOr(read.message, "Error reading file"))
                /\ UNCHANGED previewData
           ELSE IF Len(results.errors) > 0
           THEN /\ error' = TextV("CSV parsing error: " \o results.errors[1])
                /\ UNCHANGED previewData
           ELSE IF Len(results.data) > 0
           THEN /\ previewData' = [t |-> "rows", v |-> results.data]
                /\ UNCHANGED error
           ELSE UNCHANGED <<previewData, error>>
    /\ UNCHANGED <<arg, result>>
    /\ UNCHANGED <<tableName, onCloseGiven, file, isUploading, attempts, last,
                   db, nSelect, nUpload>>

\* ------------------------------------------------------------ handleUpload
\* a handleUpload call right after its synchronous start, awaiting file.text();
\* log lists the steps of the call in the order they begin
NewAttempt(lines) ==
    [pc |-> "reading", lines |-> lines, existingIds |-> {},
     fetched |-> "none", nFetch |-> 0, calls |-> <<>>, errors |-> <<>>,
     log |-> <<"read">>]

\* the button left enabled while an upload is in flight
UploadEnabledWhileUploading == file.t = "file"

\* the Upload button is enabled: disabled={!file || isUploading}
UploadEnabled == file.t = "file" /\ ~isUploading

\* a click on Upload: handleUpload up to its first await
clickUpload ==
    /\ UploadEnabled
    /\ nUpload < MaxUploads
    /\ nUpload' = nUpload + 1
    /\ isUploading' = TRUE
    /\ error' = NullV
    /\ attempts' = Append(attempts, NewAttempt(file.lines))
    /\ last' = NoAttempt
    /\ UNCHANGED <<arg, result>>
    /\ UNCHANGED <<tableName, onCloseGiven, file, previewData, previews, db,
                   nSelect>>

\* the call ends with setError(text) but without setIsUploading(false)
EndWithErrorStillUploading(i, att, stage, text, response) ==
    /\ attempts' = Remove(attempts, i)
    /\ UNCHANGED isUploading
    /\ error' = TextV(text)
    /\ last' = [outcome |-> "error", stage |-> stage, lines |-> att.lines,
                log |-> Append(att.log, "report"), nFetch |-> att.nFetch,
                fetched |-> att.fetched, existingIds |-> att.existingIds,
                calls |-> att.calls,
                errors |-> att.errors, signals |-> <<"setError">>,
                text |-> text, response |-> response]

\* the call ends with setError(text) and setIsUploading(false)
EndWithError(i, att, stage, text, response) ==
    /\ attempts' = Remove(attempts, i)
    /\ isUploading' = FALSE
    /\ error' = TextV(text)
    /\ last' = [outcome |-> "error", stage |-> stage, lines |-> att.lines,
                log |-> Append(att.log, "report"), nFetch |-> att.nFetch,
                fetched |-> att.fetched, existingIds |-> att.existingIds,
                calls |-> att.calls,
                errors |-> att.errors, signals |-> <<"setError">>,
                text |-> text, response |-> response]

\* the call ends with onSuccess() and, when given, onClose()
EndWithSuccess(i, att, response) ==
    /\ attempts' = Remove(attempts, i)
    /\ isUploading' = FALSE
    /\ UNCHANGED error
    /\ last' = [outcome |-> "success", stage |-> "insert", lines |-> att.lines,
                log |-> Append(att.log, "report"), nFetch |-> att.nFetch,
                fetched |-> att.fetched, existingIds |-> att.existingIds,
                calls |-> att.calls,
                errors |-> att.errors,
                signals |-> IF onCloseGiven THEN <<"onSuccess", "onClose">>
                            ELSE <<"onSuccess">>,
                text |-> "", response |-> response]

\* results.errors[results.errors.length - 1] in place of results.errors[0]
LastParserError(results) == results.errors[Len(results.errors)]

\* results.errors[0].message
FirstParserError(results) == results.errors[1]

\* ParseComplete without the return on validation errors
ParseCompleteNoValidation(att) ==
    LET results == PapaParse(att.lines, 0)
        rows == results.data
    IN  IF Len(results.errors) > 0
        THEN [next |-> "end", stage |-> "parse",
              text |-> "CSV parsing error: " \o FirstParserError(results),
              errors |-> <<>>, rows |-> <<>>,
              log |-> att.log \o <<"parse">>]
        ELSE IF Len(rows) = 0
        THEN [next |-> "end", stage |-> "empty",
              text |-> "CSV file contains no data",
              errors |-> <<>>, rows |-> <<>>,
              log |-> att.log \o <<"parse">>]
        ELSE [next |-> "insert", stage |-> "insert", text |-> "",
              errors |-> <<>>, rows |-> ProcessRows(rows),
              log |-> att.log
                      \o (IF tableName = "students"
                          THEN <<"parse", "validate">> ELSE <<"parse">>)
                      \o <<"coerce", "insert">>]

\* ParseComplete sending the processed rows last row first
ParseCompleteReversed(att) ==
    LET results == PapaParse(att.lines, 0)
        rows == results.data
        validationErrors == validateStudentData(rows, att.existingIds)
    IN  IF Len(results.errors) > 0
        THEN [next |-> "end", stage |-> "parse",
              text |-> "CSV parsing error: " \o FirstParserError(results),
              errors |-> <<>>, rows |-> <<>>,
              log |-> att.log \o <<"parse">>]
        ELSE IF Len(rows) = 0
        THEN [next |-> "end", stage |-> "empty",
              text |-> "CSV file contains no data",
              errors |-> <<>>, rows |-> <<>>,
              log |-> att.log \o <<"parse">>]
        ELSE IF tableName = "students" /\ Len(validationErrors) > 0
        THEN [next |-> "end", stage |-> "validation",
              text |-> ValidationText(validationErrors),
              errors |-> validationErrors, rows |-> <<>>,
              log |-> att.log \o <<"parse", "validate">>]
        ELSE [next |-> "insert", stage |-> "insert", text |-> "",
              errors |-> <<>>,
              rows |-> [k \in 1..Len(rows) |->
                           ProcessRow(rows[Len(rows) + 1 - k])],
              log |-> att.log
                      \o (IF tableName = "students"
                          THEN <<"parse", "validate">> ELSE <<"parse">>)
                      \o <<"coerce", "insert">>]

\* ParseComplete validating the rows whatever the table
ParseCompleteValidateAll(att) ==
    LET results == PapaParse(att.lines, 0)
        rows == results.data
        validationErrors == validateStudentData(rows, att.existingIds)
    IN  IF Len(results.errors) > 0
        THEN [next |-> "end", stage |-> "parse",
              text |-> "CSV parsing error: " \o FirstParserError(results),
              errors |-> <<>>, rows |-> <<>>,
              log |-> att.log \o <<"parse">>]
        ELSE IF Len(rows) = 0
        THEN [next |-> "end", stage |-> "empty",
              text |-> "CSV file contains no data",
              errors |-> <<>>, rows |-> <<>>,
              log |-> att.log \o <<"parse">>]
        ELSE IF Len(validationErrors) > 0
        THEN [next |-> "end", stage |-> "validation",
              text |-> ValidationText(validationErrors),
              errors |-> validationErrors, rows |-> <<>>,
              log |-> att.log \o <<"parse", "validate">>]
        ELSE [next |-> "insert", stage |-> "insert", text |-> "",
              errors |-> <<>>, rows |-> ProcessRows(rows),
              log |-> att.log \o <<"parse", "validate", "coerce", "insert">>]

\* the complete callback of Papa.parse up to the bulkInsert call: what the
\* call does next (end with a text, or send the processed rows)
ParseComplete(att) ==
    LET results == PapaParse(att.lines, 0)
        rows == results.data
        validationErrors == validateStudentData(rows, att.existingIds)
    IN  IF Len(results.errors) > 0
        THEN [next |-> "end", stage |-> "parse",
              text |-> "CSV parsing error: " \o FirstParserError(results),
              errors |-> <<>>, rows |-> <<>>,
              log |-> att.log \o <<"parse">>]
        ELSE IF Len(rows) = 0
        THEN [next |-> "end", stage |-> "empty",
              text |-> "CSV file contains no data",
              errors |-> <<>>, rows |-> <<>>,
              log |-> att.log \o <<"parse">>]
        ELSE IF tableName = "students" /\ Len(validationErrors) > 0
        THEN [next |-> "end", stage |-> "validation",
              text |-> ValidationText(validationErrors),
              errors |-> validationErrors, rows |-> <<>>,
              log |-> att.log \o <<"parse", "validate">>]
        ELSE [next |-> "insert", stage |-> "insert", text |-> "",
              errors |-> <<>>, rows |-> ProcessRows(rows),
              log |-> att.log
                      \o (IF tableName = "students"
                          THEN <<"parse", "validate">> ELSE <<"parse">>)
                      \o <<"coerce", "insert">>]

\* Papa.parse(text, ...) of handleUpload: synchronous for a string, so it runs
\* in the step that resumes the call
RunParse(i, att) ==
    LET step == ParseComplete(att)
        after == [att EXCEPT !.log = step.log, !.errors = step.errors]
    IN  IF step.next = "insert"
        THEN /\ attempts' =
                   [attempts EXCEPT ![i] =
                       [after EXCEPT !.pc = "inserting",
                                     !.calls = Append(@, [table |-> tableName,
                                                          rows |-> step.rows])]]
             /\ UNCHANGED <<isUploading, error, last>>
        ELSE EndWithError(i, after, step.stage, step.text, NoResponse)

\* readDone going on to the parse without the fetch of existing rows
readDoneNoFetch(i, read) ==
    /\ i \in 1..Len(attempts)
    /\ attempts[i].pc = "reading"
    /\ IF ~read.ok
       THEN EndWithError(i, attempts[i], "read",
                         MessageOr(read.message, "Error reading file"),
                         NoResponse)
       ELSE RunParse(i, attempts[i])
    /\ UNCHANGED <<arg, result>>
    /\ UNCHANGED <<tableName, onCloseGiven, file, previewData, previews, db,
                   nSelect, nUpload>>

\* await file.text() settles
readDone(i, read) ==
    /\ i \in 1..Len(attempts)
    /\ attempts[i].pc = "reading"
    /\ IF ~read.ok
       THEN EndWithError(i, attempts[i], "read",
                         MessageOr(read.message, "Error reading file"),
                         NoResponse)
       ELSE IF tableName = "students"
       THEN /\ attempts' =
                  [attempts EXCEPT ![i] =
                      [@ EXCEPT !.pc = "fetching", !.nFetch = @ + 1,
                                !.log = Append(@, "fetch")]]
            /\ UNCHANGED <<isUploading, error, last>>
       ELSE RunParse(i, attempts[i])
    /\ UNCHANGED <<arg, result>>
    /\ UNCHANGED <<tableName, onCloseGiven, file, previewData, previews, db,
                   nSelect, nUpload>>

\* the outcomes of await fetchTableData(tableName): the rows, no data, or a
\* rejection whose error carries a message or none
FetchOutcomes ==
    {[kind |-> "data", message |-> ""],
     [kind |-> "null", message |-> ""],
     [kind |-> "throw", message |-> "Failed to fetch"],
     [kind |-> "throw", message |-> ""]}

\* await fetchTableData(tableName) settles
fetchDone(i, fetch) ==
    /\ i \in 1..Len(attempts)
    /\ attempts[i].pc = "fetching"
    /\ IF fetch.kind = "throw"
       THEN EndWithError(i, [attempts[i] EXCEPT !.fetched = "throw"], "fetch",
                         MessageOr(fetch.message, "Error reading file"),
                         NoResponse)
       ELSE RunParse(i, [attempts[i] EXCEPT
                            !.fetched = fetch.kind,
                            !.existingIds = IF fetch.kind = "data" THEN db
                                            ELSE {}])
    /\ UNCHANGED <<arg, result>>
    /\ UNCHANGED <<tableName, onCloseGiven, file, previewData, previews, db,
                   nSelect, nUpload>>

\* -------------------------------------------------------------- bulkInsert
DuplicateKeyMessage == <<"duplicate key value", " violates unique constraint">>

\* The outcomes of await bulkInsert(tableName, processedRows): a result
\* {success, message} or a rejection.  cause records why the store refused:
\* a uniqueness violation carries the store's duplicate-key message, another
\* refusal another message; a rejection may carry no message.
InsertOutcomes ==
    {[kind |-> "ok", cause |-> "none", message |-> <<"Successfully inserted">>],
     [kind |-> "fail", cause |-> "unique", message |-> DuplicateKeyMessage],
     [kind |-> "fail", cause |-> "other",
      message |-> <<"permission denied for table">>],
     [kind |-> "throw", cause |-> "unique", message |-> DuplicateKeyMessage],
     [kind |-> "throw", cause |-> "other", message |-> <<"Failed to fetch">>],
     [kind |-> "throw", cause |-> "other", message |-> <<>>]}

\* the key under which the store compares two student_id values
KeyText(v) == IF v.t = "num" THEN ToString(v.v) ELSE Show(v.v)

SentIds(rows) ==
    {rows[k]["student_id"] :
        k \in {m \in 1..Len(rows) :
                  /\ "student_id" \in DOMAIN rows[m]
                  /\ rows[m]["student_id"].t \in {"num", "str"}}}

\* the store holds a student with one of these identifiers
Conflicts(rows) ==
    \E a \in SentIds(rows) : \E b \in db : KeyText(a) = KeyText(b)

\* the catch block without the fallback text
ThrownMessageNoFallback(message) == message

\* err.message || 'Error uploading data', as fragments
ThrownMessage(message) ==
    IF Concat(message) = "" THEN <<"Error uploading data">> ELSE message

\* the duplicate-key rewrite left out of the catch block
InsertErrorTextNoRewriteOnThrow(response) ==
    IF response.kind = "fail"
    THEN (IF Includes(response.message, "duplicate key value")
          THEN FriendlyDuplicateText
          ELSE Concat(response.message))
    ELSE Concat(ThrownMessage(response.message))

\* the text shown when bulkInsert did not succeed: the else branch of
\* result.success for a result, the catch block for a rejection
InsertErrorText(response) ==
    LET errorMessage == IF response.kind = "fail" THEN response.message
                        ELSE ThrownMessage(response.message)
    IN  IF Includes(errorMessage, "duplicate key value")
        THEN FriendlyDuplicateText
        ELSE Concat(errorMessage)

\* insertDone calling bulkInsert once more after a refusal
insertDoneRetry(i, response) ==
    /\ i \in 1..Len(attempts)
    /\ attempts[i].pc = "inserting"
    /\ LET rows == attempts[i].calls[Len(attempts[i].calls)].rows
       IN  IF response.kind = "ok"
           THEN /\ ~(tableName = "students" /\ Conflicts(rows))
                /\ db' = IF tableName = "students" THEN db \cup SentIds(rows)
                         ELSE db
                /\ EndWithSuccess(i, attempts[i], response)
           ELSE IF Len(attempts[i].calls) < 2
           THEN /\ UNCHANGED <<db, isUploading, error, last>>
                /\ attempts' =
                      [attempts EXCEPT ![i].calls =
                          Append(@, [table |-> tableName, rows |-> rows])]
           ELSE /\ UNCHANGED db
                /\ EndWithError(i, attempts[i], "insert",
                                InsertErrorText(response), response)
    /\ UNCHANGED <<arg, result>>
    /\ UNCHANGED <<tableName, onCloseGiven, file, previewData, previews,
                   nSelect, nUpload>>

\* await bulkInsert(tableName, processedRows) settles
insertDone(i, response) ==
    /\ i \in 1..Len(attempts)
    /\ attempts[i].pc = "inserting"
    /\ LET rows == attempts[i].calls[Len(attempts[i].calls)].rows
       IN  IF response.kind = "ok"
           THEN /\ ~(tableName = "students" /\ Conflicts(rows))
                /\ db' = IF tableName = "students" THEN db \cup SentIds(rows)
                         ELSE db
                /\ EndWithSuccess(i, attempts[i], response)
           ELSE /\ UNCHANGED db
                /\ EndWithError(i, attempts[i], "insert",
                                InsertErrorText(response), response)
    /\ UNCHANGED <<arg, result>>
    /\ UNCHANGED <<tableName, onCloseGiven, file, previewData, previews,
                   nSelect, nUpload>>

\* --------------------------------------------------------------- the system
Next ==
    \/ \E selected \in FilePool : handleFileChange(selected)
    \/ \E i \in 1..MaxSelects, read \in ReadOutcomes : generatePreview(i, read)
    \/ clickUpload
    \/ \E i \in 1..MaxUploads, read \in ReadOutcomes : readDone(i, read)
    \/ \E i \in 1..MaxUploads, fetch \in FetchOutcomes : fetchDone(i, fetch)
    \/ \E i \in 1..MaxUploads, response \in InsertOutcomes :
          insertDone(i, response)

Spec == Init /\ [][Next]_vars

\* ------------------------------------------------------------- properties
InLog(log, step) == \E k \in 1..Len(log) : log[k] = step

FullParse(lines) == PapaParse(lines, 0)

\* the call parsed its file without a parser problem and got n >= 1 rows
ParsedRows(a) ==
    /\ InLog(a.log, "parse")
    /\ Len(FullParse(a.lines).errors) = 0
    /\ Len(FullParse(a.lines).data) > 0

\* ... and the validator returns at least one error for them
RejectedByValidator(a) ==
    /\ ParsedRows(a)
    /\ Len(validateStudentData(FullParse(a.lines).data, a.existingIds)) > 0

Ended == last.outcome # "none"

\* the raw student_id texts of a file's rows
FileIds(lines) ==
    {StrV(lines[k].row["student_id"]) :
        k \in {m \in 1..Len(lines) : Truthy(lines[m].row, "student_id")}}

\* C1: in a students upload whose parsed rows get at least one validator
\* error, bulkInsert is never called and the call ends with an error report;
\* the file whose row 2 has a blank last_name and whose row 3 repeats the
\* student_id of row 1 (none of its identifiers fetched from the store) gets
\* exactly two errors, the missing field on row 2 and the repeat on row 3.
C1_ValidationErrorsBlockInsert ==
    tableName = "students" =>
        /\ \A i \in 1..Len(attempts) : ~RejectedByValidator(attempts[i])
        /\ (Ended /\ RejectedByValidator(last)) =>
              /\ last.calls = <<>>
              /\ last.outcome = "error"
              /\ last.signals = <<"setError">>
              /\ last.text # ""
              /\ Len(last.errors) > 0
        /\ (/\ Ended
            /\ InLog(last.log, "parse")
            /\ last.lines = FileBlankAndRepeat.lines
            /\ FileIds(last.lines) \cap last.existingIds = {}) =>
              /\ Len(last.errors) = 2
              /\ last.errors[1].row = 2
              /\ last.errors[1].rule = "required"
              /\ last.errors[1].field = "last_name"
              /\ last.errors[2].row = 3
              /\ last.errors[2].rule = "duplicate_in_file"
              /\ last.calls = <<>>

C1_Witness ==
    /\ tableName = "students"
    /\ last.outcome = "error"
    /\ last.lines = FileBlankAndRepeat.lines
    /\ Len(last.errors) = 2
    /\ last.calls = <<>>

\* the call a has sent one bulkInsert, for this table, with one record per
\* row of its file in the order of the rows
SentOnceInOrder(a) ==
    /\ Len(a.calls) = 1
    /\ a.calls[1].table = tableName
    /\ Len(a.calls[1].rows) = Len(a.lines)
    /\ \A k \in 1..Len(a.lines) :
          /\ DOMAIN a.lines[k].row \subseteq DOMAIN a.calls[1].rows[k]
          /\ a.calls[1].rows[k]["first_name"]
                = StrV(a.lines[k].row["first_name"])
          /\ a.calls[1].rows[k]["student_id"]
                = NumV(ToNumber(a.lines[k].row["student_id"]))

\* C2: a call whose file parses without problem into n >= 1 rows that pass
\* validation sends bulkInsert exactly once, for the target table, with the
\* n coerced records in the order of the rows.
C2_OneInsertInRowOrder ==
    /\ \A i \in 1..Len(attempts) :
          (ParsedRows(attempts[i])
           /\ ~(tableName = "students" /\ RejectedByValidator(attempts[i])))
          => SentOnceInOrder(attempts[i])
    /\ (Ended /\ ParsedRows(last)
        /\ ~(tableName = "students" /\ RejectedByValidator(last)))
       => SentOnceInOrder(last)

C2_Witness ==
    /\ tableName = "students"
    /\ last.outcome = "success"
    /\ last.lines = FileTwoValid.lines
    /\ Len(last.calls) = 1
    /\ Len(last.calls[1].rows) = 2

\* C3: at most one handleUpload call is in flight; while one is, isUploading
\* is true and the Upload button is disabled, whatever file selections and
\* responses come in between.
C3_OneUploadInFlight ==
    /\ Len(attempts) <= 1
    /\ isUploading <=> (Len(attempts) = 1)
    /\ Len(attempts) = 1 => ~UploadEnabled

\* an upload is waiting for bulkInsert and the user has selected another file
C3_Witness ==
    /\ Len(attempts) = 1
    /\ attempts[1].pc = "inserting"
    /\ file.t = "file"
    /\ file.lines # attempts[1].lines
    /\ isUploading

\* the handleUpload calls to speak of: those in flight and the one that ended
Calls == {attempts[i] : i \in 1..Len(attempts)}

\* C4 (as claimed): a students upload whose fetch of existing rows failed
\* (no data, or a rejection) ends there with an error: it neither validates
\* nor calls bulkInsert.
C4_FetchFailureIsTerminal ==
    tableName = "students" =>
        /\ \A a \in Calls :
              a.fetched \in {"null", "throw"} =>
                  ~InLog(a.log, "validate") /\ a.calls = <<>>
        /\ (Ended /\ last.fetched \in {"null", "throw"}) =>
              /\ last.outcome = "error"
              /\ ~InLog(last.log, "validate")
              /\ last.calls = <<>>

\* C5 (as claimed): when validation rejects a students upload, the call has
\* issued no round trip to the store, neither the fetch nor bulkInsert.
C5_NoRoundTripBeforeRejection ==
    (tableName = "students" /\ Ended /\ RejectedByValidator(last)) =>
        /\ last.nFetch = 0
        /\ last.calls = <<>>

\* C5 (amended): when validation rejects a students upload, the call has
\* issued no bulkInsert; it has issued exactly one round trip, the fetch of
\* existing rows, and that fetch had answered before the validation ran.
C5_OnlyTheFetchBeforeRejection ==
    (tableName = "students" /\ Ended /\ RejectedByValidator(last)) =>
        /\ last.calls = <<>>
        /\ last.nFetch = 1
        /\ last.fetched \in {"data", "null"}
        /\ last.log = <<"read", "fetch", "parse", "validate", "report">>

C5_Witness ==
    /\ tableName = "students"
    /\ last.stage = "validation"
    /\ last.nFetch = 1
    /\ last.calls = <<>>
    /\ Len(last.errors) > 0

\* the steps of log occur in the relative order that order gives them
Position(order, step) == CHOOSE k \in 1..Len(order) : order[k] = step

OrderedBy(log, order) ==
    /\ \A k \in 1..Len(log) : InLog(order, log[k])
    /\ \A j \in 1..Len(log) : \A k \in (j + 1)..Len(log) :
          Position(order, log[j]) < Position(order, log[k])

ClaimedOrder ==
    <<"read", "parse", "fetch", "validate", "coerce", "insert", "report">>

CodeOrder ==
    <<"read", "fetch", "parse", "validate", "coerce", "insert", "report">>

\* C6 (as claimed): the steps of a students upload begin in the order parse,
\* fetch, validate, coerce, insert, report; the fetch is issued only after
\* the full parse.
C6_ParseBeforeFetch ==
    tableName = "students" =>
        /\ \A a \in Calls : OrderedBy(a.log, ClaimedOrder)
        /\ Ended => OrderedBy(last.log, ClaimedOrder)
        /\ \A a \in Calls : InLog(a.log, "fetch") => InLog(a.log, "parse")

\* C6 (amended): the steps of a students upload begin in the order read of
\* the file, fetch, parse, validate, coerce, insert, report, each after the
\* one before it completed: the fetch is issued before the parse, the parse
\* runs only once the fetch has answered, and a successful upload went
\* through all of them.
C6_FetchBeforeParse ==
    tableName = "students" =>
        /\ \A a \in Calls :
              /\ OrderedBy(a.log, CodeOrder)
              /\ InLog(a.log, "parse") => a.fetched \in {"data", "null"}
              /\ a.pc = "inserting" =>
                    a.log = SubSeq(CodeOrder, 1, Len(CodeOrder) - 1)
        /\ Ended =>
              /\ OrderedBy(last.log, CodeOrder)
              /\ InLog(last.log, "parse") => last.fetched \in {"data", "null"}
              /\ last.outcome = "success" => last.log = CodeOrder

C6_Witness ==
    /\ tableName = "students"
    /\ last.outcome = "success"
    /\ last.log = CodeOrder

\* C7: one handleUpload call issues the fetch of existing rows at most once
\* and bulkInsert at most once, also after either was refused.
C7_NoAutomaticRetry ==
    /\ \A a \in Calls : a.nFetch <= 1 /\ Len(a.calls) <= 1
    /\ last.nFetch <= 1 /\ Len(last.calls) <= 1
    /\ (Ended /\ last.response.kind \in {"fail", "throw"}) =>
          Len(last.calls) = 1 /\ last.outcome = "error"

C7_Witness ==
    /\ last.outcome = "error"
    /\ last.stage = "insert"
    /\ last.response.kind = "throw"
    /\ Len(last.calls) = 1
    /\ last.nFetch = 1

C9_ParseErrorsEndTheAttempt ==
    /\ \A a \in Calls :
          ~(InLog(a.log, "parse") /\ Len(FullParse(a.lines).errors) > 0)
    /\ (Ended /\ InLog(last.log, "parse")
        /\ Len(FullParse(last.lines).errors) > 0) =>
          /\ last.outcome = "error"
          /\ last.signals = <<"setError">>
          /\ last.text = "CSV parsing error: " \o FullParse(last.lines).errors[1]
          /\ ~InLog(last.log, "validate")
          /\ ~InLog(last.log, "coerce")
          /\ last.calls = <<>>
    /\ (Ended /\ InLog(last.log, "parse")
        /\ last.lines = FileMalformed.lines) =>
          last.text = "CSV parsing error: " \o LineTooFew.err

C9_Witness ==
    /\ last.outcome = "error"
    /\ last.lines = FileMalformed.lines
    /\ last.text = "CSV parsing error: Too few fields: expected 6 fields but parsed 1"
    /\ last.calls = <<>>

\* C10 (as claimed): after a refused bulkInsert the text shown is the
\* friendly rewrite exactly when the store reported a uniqueness violation,
\* and the store's message unchanged in every other case; no success signal.
C10_RewriteOrPassThrough ==
    (Ended /\ last.response.kind \in {"fail", "throw"}) =>
        /\ last.outcome = "error"
        /\ last.signals = <<"setError">>
        /\ (last.text = FriendlyDuplicateText) <=> (last.response.cause = "unique")
        /\ last.response.cause # "unique" =>
              last.text = Concat(last.response.message)

\* C10 (amended): ... and the store's message unchanged in every other case,
\* except that a rejection carrying no message is shown as
\* "Error uploading data"; no success signal.
C10_RewriteOrPassThroughOrDefault ==
    (Ended /\ last.response.kind \in {"fail", "throw"}) =>
        /\ last.outcome = "error"
        /\ last.signals = <<"setError">>
        /\ (last.text = FriendlyDuplicateText) <=> (last.response.cause = "unique")
        /\ last.response.cause # "unique" =>
              last.text = IF /\ last.response.kind = "throw"
                             /\ Concat(last.response.message) = ""
                          THEN "Error uploading data"
                          ELSE Concat(last.response.message)

C10_Witness ==
    /\ last.response.kind = "throw"
    /\ last.response.cause = "unique"
    /\ last.text = FriendlyDuplicateText
    /\ last.outcome = "error"

\* ------------------------------------------------ the validator on its own
\* The complete callback of handleUpload for a students file, from the call
\* of validateStudentData on: the inputs are the parsed rows and the
\* existingIds set, the steps are the validation, then either the error
\* report or the coercion.

\* rows of a file given to the validator
MaxValRows == 3

\* the variables of the upload session, idle while a function is studied
sessionVars ==
    <<tableName, onCloseGiven, file, isUploading, error, previewData,
      previews, attempts, last, db, nSelect, nUpload>>

SessionIdle ==
    /\ tableName = "students"
    /\ onCloseGiven = FALSE
    /\ file = NullV
    /\ isUploading = FALSE
    /\ error = NullV
    /\ previewData = NullV
    /\ previews = <<>>
    /\ attempts = <<>>
    /\ last = NoAttempt
    /\ db = {}
    /\ nSelect = 0
    /\ nUpload = 0

\* a column the header of the file lacks
Absent == <<"(no column)">>

\* the row Papa.parse yields for these cells under the header's columns
RowOf(cells) ==
    [f \in {c \in DOMAIN cells : cells[c] # Absent} |-> cells[f]]

BobCom == <<"b", "o", "b", "@", "e", "x", "a", "m", "p", "l", "e", ".", "c", "o", "m">>

BobNoTld == <<"b", "o", "b", "@", "e", "x", "a", "m", "p", "l", "e">>

\* one-row files: every combination of these cells
WideRows ==
    {RowOf([first_name |-> fn, last_name |-> ln, student_id |-> id,
            student_email |-> se, parents_email |-> pe, program_id |-> pi,
            center_id |-> ci, enrollment_year |-> ey]) :
        fn \in {<<"A", "l">>, <<>>},
        ln \in {<<"L", "i">>, <<" ">>, Absent},
        id \in {<<"1">>, <<"x">>},
        se \in {BobCom, BobNoTld, <<>>},
        pe \in {BobCom, <<"p", "q">>, Absent},
        pi \in {<<"7">>, <<"a", "b">>, <<" ">>},
        ci \in {<<"9">>, <<>>},
        ey \in {<<"2", "0">>, <<"a", "b">>}}

\* the rows of the longer files: identifiers that repeat, a blank last_name,
\* a malformed email, a row without identifier
NarrowRows ==
    {[first_name |-> <<"A", "l">>, last_name |-> ln, student_id |-> id,
      student_email |-> se, program_id |-> <<"7">>, center_id |-> <<"9">>] :
        ln \in {<<"L", "i">>, <<>>},
        id \in {<<"1">>, <<"2">>},
        se \in {BobCom, BobNoTld}}
    \cup {StudentRow(<<"N", "o">>, <<"I", "d">>, <<>>)}

RECURSIVE SeqsUpTo(_, _)
SeqsUpTo(S, n) ==
    IF n = 0 THEN {<<>>}
    ELSE SeqsUpTo(S, n - 1)
         \cup {Append(q, x) : q \in {r \in SeqsUpTo(S, n - 1) : Len(r) = n - 1},
                              x \in S}

\* what existingIds may hold: nothing, texts, numbers
ExistingPool == {{}, {StrV(<<"2">>)}, {StrV(<<"1">>), NumV(2)}}

ValidatorInputs ==
    {[t |-> "rows", rows |-> rows, existingIds |-> ids] :
        rows \in {<<r>> : r \in WideRows}
                 \cup (SeqsUpTo(NarrowRows, MaxValRows) \ {<<>>}),
        ids \in ExistingPool}

InitValidate ==
    /\ SessionIdle
    /\ arg \in ValidatorInputs
    /\ result = NullV

\* const validationErrors = validateStudentData(rows, existingIds)
validate ==
    /\ arg.t = "rows" /\ result = NullV
    /\ result' = [t |-> "validated",
                  errors |-> validateStudentData(arg.rows, arg.existingIds)]
    /\ UNCHANGED arg
    /\ UNCHANGED sessionVars

\* validationErrors.length > 0: setError(text) and return
reportErrors ==
    /\ result.t = "validated" /\ Len(result.errors) > 0
    /\ result' = [t |-> "reported", errors |-> result.errors,
                  lines |-> ValidationLines(result.errors),
                  text |-> ValidationText(result.errors)]
    /\ UNCHANGED arg
    /\ UNCHANGED sessionVars

\* no validation error: the rows go on to coercion
coerceRows ==
    /\ result.t = "validated" /\ Len(result.errors) = 0
    /\ result' = [t |-> "coerced", errors |-> result.errors,
                  rows |-> ProcessRows(arg.rows)]
    /\ UNCHANGED arg
    /\ UNCHANGED sessionVars

NextValidate ==
    \/ validate
    \/ reportErrors
    \/ coerceRows

SpecValidate == InitValidate /\ [][NextValidate]_vars

Validated == result.t \in {"validated", "reported", "coerced"}

\* the entries of the result for row k (1-based) under a rule, any field
EntriesOf(k, rule) ==
    {i \in 1..Len(result.errors) :
        result.errors[i].row = k /\ result.errors[i].rule = rule}

\* ... and for one field
EntriesFor(k, rule, field) ==
    {i \in EntriesOf(k, rule) : result.errors[i].field = field}

\* the rules as the specification words them, on row k of the input
Blank(row, field) == ~Has(row, field) \/ Trim(row[field]) = <<>>

NotANumber(row, field) ==
    /\ Has(row, field)
    /\ Trim(row[field]) # <<>>
    /\ \E i \in 1..Len(Trim(row[field])) : Trim(row[field])[i] \notin Digits

RepeatsEarlier(rows, k) ==
    /\ Truthy(rows[k], "student_id")
    /\ \E j \in 1..(k - 1) :
          /\ Has(rows[j], "student_id")
          /\ rows[j]["student_id"] = rows[k]["student_id"]

\* the identifier text of row k is a member of existingIds
InExistingIds(rows, k, ids) ==
    Truthy(rows[k], "student_id") /\ StrV(rows[k]["student_id"]) \in ids

Malformed(row, field) == Truthy(row, field) /\ ~EmailTest(row[field])

\* the rule instances row k violates, as <<rule, field>>
Violations(rows, k, ids) ==
    {<<"required", f>> : f \in {g \in {"first_name", "last_name",
                                       "student_email", "program_id",
                                       "center_id"} : Blank(rows[k], g)}}
    \cup (IF RepeatsEarlier(rows, k)
          THEN {<<"duplicate_in_file", "student_id">>} ELSE {})
    \cup (IF InExistingIds(rows, k, ids)
          THEN {<<"duplicate_in_store", "student_id">>} ELSE {})
    \cup {<<"email", f>> : f \in {g \in {"student_email", "parents_email"} :
                                     Malformed(rows[k], g)}}
    \cup {<<"numeric", f>> : f \in {g \in {"program_id", "program_2_id",
                                          "center_id", "number_of_sessions",
                                          "educator_employee_id",
                                          "secondary_educator_employee_id"} :
                                      NotANumber(rows[k], g)}}

\* C11: for every row, every rule instance the row violates has exactly one
\* entry of its own in the validator's result and nothing else is reported
\* for the row: no rule's failure hides another on the same or a later row.
C11_EveryViolationReported ==
    Validated =>
        \A k \in 1..Len(arg.rows) :
            LET found == {i \in 1..Len(result.errors) :
                             result.errors[i].row = k}
            IN  /\ {<<result.errors[i].rule, result.errors[i].field>> :
                       i \in found}
                   = Violations(arg.rows, k, arg.existingIds)
                /\ Cardinality(found)
                   = Cardinality(Violations(arg.rows, k, arg.existingIds))

\* a later row with a missing required field and a duplicate identifier got
\* both entries, after an earlier row that failed a rule too
C11_Witness ==
    /\ Validated
    /\ \E k \in 2..Len(arg.rows) :
          /\ EntriesFor(k, "required", "last_name") # {}
          /\ EntriesOf(k, "duplicate_in_file") # {}
          /\ EntriesOf(k, "duplicate_in_store") # {}
          /\ \E j \in 1..(k - 1) : EntriesOf(j, "email") # {}

\* C12: row i gets an intra-file duplicate error exactly when its student_id
\* is non-empty and some earlier row carries the same student_id; it never
\* gets two.
C12_DuplicateIffEarlierRow ==
    Validated =>
        \A k \in 1..Len(arg.rows) :
            /\ EntriesOf(k, "duplicate_in_file") # {}
               <=> RepeatsEarlier(arg.rows, k)
            /\ Cardinality(EntriesOf(k, "duplicate_in_file")) <= 1

\* identifiers [A, B, A]: the duplicate error is on row 3 only
C12_Witness ==
    /\ Validated
    /\ Len(arg.rows) = 3
    /\ arg.rows[1]["student_id"] = <<"1">>
    /\ arg.rows[2]["student_id"] = <<"2">>
    /\ arg.rows[3]["student_id"] = <<"1">>
    /\ EntriesOf(1, "duplicate_in_file") = {}
    /\ EntriesOf(2, "duplicate_in_file") = {}
    /\ EntriesOf(3, "duplicate_in_file") # {}

\* row k carries the identifier of a row the store holds
StoredIdentifier(rows, k, ids) ==
    /\ Truthy(rows[k], "student_id")
    /\ \E b \in ids : KeyText(b) = Show(rows[k]["student_id"])

\* C13: every row whose student_id is the student_id of a row returned by
\* the fetch of existing rows gets an already-exists error, whether or not it
\* also got an intra-file duplicate error.
C13_StoredIdentifierFlagged ==
    Validated =>
        \A k \in 1..Len(arg.rows) :
            StoredIdentifier(arg.rows, k, arg.existingIds)
            => EntriesOf(k, "duplicate_in_store") # {}

\* C14: for every row and each of the five required columns, an error naming
\* the row and the field is emitted exactly when the value is missing or blank
\* after trimming.
C14_RequiredIffBlank ==
    Validated =>
        \A k \in 1..Len(arg.rows) :
            \A f \in {"first_name", "last_name", "student_email",
                      "program_id", "center_id"} :
                /\ EntriesFor(k, "required", f) # {} <=> Blank(arg.rows[k], f)
                /\ \A i \in EntriesFor(k, "required", f) :
                      result.errors[i].message
                      = "Row " \o ToString(k)
                        \o ": Missing required field \"" \o f \o "\""

\* a last_name of one space and an empty first_name are both reported, the
\* present program_id is not
C14_Witness ==
    /\ Validated
    /\ Len(arg.rows) = 1
    /\ Has(arg.rows[1], "last_name") /\ arg.rows[1]["last_name"] = <<" ">>
    /\ EntriesFor(1, "required", "last_name") # {}
    /\ EntriesFor(1, "required", "first_name") # {}
    /\ arg.rows[1]["program_id"] = <<"7">>
    /\ EntriesFor(1, "required", "program_id") = {}

\* the email texts of the input rows by shape local@domain.tld
WellFormedEmails == {BobCom, <<"a", "@", "b", ".", "c">>}

MalformedEmails == {BobNoTld, <<"p", "q">>}

\* C15: student_email and parents_email are checked each on its own; a
\* present value gets a format error exactly when it lacks the shape
\* local@domain.tld ("bob@example" fails, "bob@example.com" passes).
C15_EmailFormat ==
    Validated =>
        \A k \in 1..Len(arg.rows) :
            \A f \in {"student_email", "parents_email"} :
                /\ Truthy(arg.rows[k], f)
                   => arg.rows[k][f] \in WellFormedEmails \cup MalformedEmails
                /\ Cardinality(EntriesFor(k, "email", f))
                   = IF Truthy(arg.rows[k], f)
                        /\ arg.rows[k][f] \in MalformedEmails
                     THEN 1 ELSE 0

\* a row with two malformed emails got two format errors
C15_Witness ==
    /\ Validated
    /\ Len(arg.rows) = 1
    /\ arg.rows[1]["student_email"] = BobNoTld
    /\ Has(arg.rows[1], "parents_email")
    /\ arg.rows[1]["parents_email"] = <<"p", "q">>
    /\ Cardinality(EntriesOf(1, "email")) = 2

\* C16: in a students upload no value of a column that coercion treats as
\* numeric reaches coercion's pass-through (the text kept as it is) without
\* a validator error: rows that reach coercion hold no text in such a column.
C16_NoUnflaggedNumericFallback ==
    result.t = "coerced" =>
        \A k \in 1..Len(arg.rows) :
            \A key \in coercionNumericFields \cap DOMAIN arg.rows[k] :
                result.rows[k][key].t # "str"

RECURSIVE CountViolations(_, _, _)
CountViolations(rows, k, ids) ==
    IF k = 0 THEN 0
    ELSE Cardinality(Violations(rows, k, ids))
         + CountViolations(rows, k - 1, ids)

\* C17: the text reported for N >= 1 validation errors is the heading, the
\* messages of the first min(N, 5) errors in validator order, one per line,
\* and a last line stating N - 5 more errors exactly when N > 5; the
\* validator's result holds all N errors.
C17_FiveMessagesThenOverflow ==
    result.t = "reported" =>
        LET N == Len(result.errors)
            shown == IF N < 5 THEN N ELSE 5
        IN  /\ N >= 1
            /\ N = CountViolations(arg.rows, Len(arg.rows), arg.existingIds)
            /\ Len(result.lines) = 1 + shown + (IF N > 5 THEN 1 ELSE 0)
            /\ \A k \in 1..shown :
                  result.lines[1 + k] = result.errors[k].message
            /\ N > 5 => result.lines[7]
                        = "...and " \o ToString(N - 5) \o " more errors"
            /\ result.text = JoinLines(result.lines)

\* seven errors: five messages and "...and 2 more errors"
C17_Witness ==
    /\ result.t = "reported"
    /\ Len(result.errors) = 7
    /\ Len(result.lines) = 7
    /\ result.lines[7] = "...and 2 more errors"

\* a call for a table other than students: no fetch, no validation, and once
\* its file parsed into rows, one bulkInsert with the coerced rows
Unchecked(a) ==
    /\ a.nFetch = 0
    /\ a.fetched = "none"
    /\ ~InLog(a.log, "fetch")
    /\ ~InLog(a.log, "validate")
    /\ a.errors = <<>>
    /\ ParsedRows(a) =>
          /\ Len(a.calls) = 1
          /\ a.calls[1].table = tableName
          /\ a.calls[1].rows = ProcessRows(FullParse(a.lines).data)

\* C18: the fetch of existing rows and the field-level validation happen for
\* 'students' only; for educators, employees and courses an upload whose file
\* parses into rows goes to coercion and one bulkInsert, unfetched and
\* unchecked.  A students upload that parsed its rows has fetched and
\* validated.
C18_OnlyStudentsFetchedAndValidated ==
    /\ tableName \in {"educators", "employees", "courses"} =>
          /\ \A a \in Calls : Unchecked(a)
          /\ Ended => Unchecked(last) /\ last.stage # "validation"
    /\ tableName = "students" =>
          \A a \in Calls \cup (IF Ended THEN {last} ELSE {}) :
              ParsedRows(a) => a.nFetch = 1 /\ InLog(a.log, "validate")

\* a courses upload of the file whose rows fail the students rules succeeded
C18_Witness ==
    /\ tableName = "courses"
    /\ last.outcome = "success"
    /\ last.lines = FileBlankAndRepeat.lines
    /\ last.nFetch = 0
    /\ Len(last.calls) = 1
    /\ Len(last.calls[1].rows) = 3

\* the preview table is rendered: file && !error, previewData non-empty
PreviewShown ==
    /\ file.t = "file"
    /\ error = NullV
    /\ previewData.t = "rows"
    /\ Len(previewData.v) > 0

\* the first min(3, n) rows of the full parse of the selected file
FirstRowsOfFile ==
    LET data == FullParse(file.lines).data
    IN  SubSeq(data, 1, Min(3, Len(data)))

\* C19: once the previews of all selections have completed, a preview that is
\* shown holds exactly the first min(3, n) data rows of the selected file.
C19_PreviewIsOfSelectedFile ==
    (PreviewShown /\ previews = <<>>) => previewData.v = FirstRowsOfFile

\* ------------------------------------------------- the coercion on its own
\* The callback of rows.map for one row of a file.

\* instants at which the callback may run
MaxTime == 2

\* new Date().toISOString() at instant n
NowISO(n) == <<"n", "o", "w", "+", ToString(n)>>

\* rows over the columns coercion tells apart: a plain text, a number, an
\* array and two dates, with cells that are missing, empty, blank or filled
CoerceRowPool ==
    {RowOf([first_name |-> fn, program_id |-> pi, days_of_week |-> dw,
            dob |-> d, created_at |-> ca]) :
        fn \in {<<"A", "l">>, <<" ", "A">>, <<>>},
        pi \in {<<"7">>, <<" ", "7">>, <<"1", "2">>, <<"a", "b">>, <<" ">>,
                <<>>},
        dw \in {Absent, <<>>, <<" ">>, <<"M", ",", " ", "T">>,
                <<"[", "1", ",", "2", "]">>, <<"[", "a", ",", "b", "]">>,
                <<"x">>},
        d \in {Absent, <<"2", "0", "1", "0", "-", "0", "5", "-", "0", "9">>,
               <<"m", "a", "y">>},
        ca \in {Absent, <<>>, <<" ">>, <<"s", "o", "o", "n">>,
                <<"2", "0", "2", "4", "-", "0", "1", "-", "0", "2">>}}

InitCoerce ==
    /\ SessionIdle
    /\ arg \in {[t |-> "row", row |-> row] : row \in CoerceRowPool}
    /\ result = NullV

\* the callback of rows.map runs on the row at instant now
processRow(now) ==
    /\ arg.t = "row" /\ result = NullV
    /\ result' = [t |-> "record", now |-> now,
                  row |-> ProcessRowAt(arg.row, NowISO(now))]
    /\ UNCHANGED arg
    /\ UNCHANGED sessionVars

\* the callback runs on the same row once more (the file is uploaded again),
\* no earlier than the first time
processRowAgain(now) ==
    /\ result.t = "record" /\ now >= result.now
    /\ result' = [t |-> "again", now |-> result.now, row |-> result.row,
                  now2 |-> now,
                  row2 |-> ProcessRowAt(arg.row, NowISO(now))]
    /\ UNCHANGED arg
    /\ UNCHANGED sessionVars

NextCoerce ==
    \/ \E now \in 1..MaxTime : processRow(now)
    \/ \E now \in 1..MaxTime : processRowAgain(now)

SpecCoerce == InitCoerce /\ [][NextCoerce]_vars

Processed == result.t \in {"record", "again"}

\* C20: a processed record always holds a non-empty created_at: the upload
\* time when the row has no created_at column or an empty cell in it, and
\* otherwise the coerced form of the row's own value, never the upload time.
C20_CreatedAtStampedOrKept ==
    Processed =>
        /\ "created_at" \in DOMAIN result.row
        /\ result.row["created_at"].t = "str"
        /\ result.row["created_at"].v # <<>>
        /\ IF Truthy(arg.row, "created_at")
           THEN /\ result.row["created_at"]
                   = CoerceValue("created_at", arg.row["created_at"])
                /\ result.row["created_at"] # StrV(NowISO(result.now))
           ELSE result.row["created_at"] = StrV(NowISO(result.now))

\* a row with a created_at date kept it as an ISO timestamp
C20_Witness ==
    /\ Processed
    /\ Has(arg.row, "created_at")
    /\ arg.row["created_at"]
       = <<"2", "0", "2", "4", "-", "0", "1", "-", "0", "2">>
    /\ result.row["created_at"]
       = StrV(<<"2", "0", "2", "4", "-", "0", "1", "-", "0", "2", "T",
                "0", "0", ":", "0", "0", ":", "0", "0", ".", "0", "0", "0",
                "Z">>)

\* a row without a created_at value was stamped with the upload time
C20_WitnessStamped ==
    /\ Processed
    /\ ~Truthy(arg.row, "created_at")
    /\ result.row["created_at"] = StrV(NowISO(result.now))

\* the place of a field in a list of fields
PlaceIn(fields, field) ==
    CHOOSE n \in 1..Len(fields) : fields[n] = field

\* the place of an entry in the order the rules of one row are evaluated
RuleRank(e) ==
    CASE e.rule = "required" ->
            PlaceIn(<<"first_name", "last_name", "student_email",
                      "program_id", "center_id">>, e.field)
      [] e.rule = "duplicate_in_file" -> 6
      [] e.rule = "duplicate_in_store" -> 7
      [] e.rule = "email" -> IF e.field = "student_email" THEN 8 ELSE 9
      [] e.rule = "numeric" ->
            9 + PlaceIn(<<"program_id", "program_2_id", "center_id",
                          "number_of_sessions", "educator_employee_id",
                          "secondary_educator_employee_id">>, e.field)

\* C21: the validator's list goes by non-decreasing row index and, within a
\* row, in the order the rules are evaluated (required fields, intra-file
\* duplicate, cross-store duplicate, emails, numeric columns); the row index
\* of an entry is the 1-based position of the row it is about.
C21_ErrorsInRowThenRuleOrder ==
    Validated =>
        /\ \A i \in 1..Len(result.errors) :
              /\ result.errors[i].row \in 1..Len(arg.rows)
              /\ <<result.errors[i].rule, result.errors[i].field>>
                 \in Violations(arg.rows, result.errors[i].row,
                                arg.existingIds)
        /\ \A i \in 1..Len(result.errors) : \A j \in (i + 1)..Len(result.errors) :
              \/ result.errors[i].row < result.errors[j].row
              \/ /\ result.errors[i].row = result.errors[j].row
                 /\ RuleRank(result.errors[i]) < RuleRank(result.errors[j])

\* row 1 has a required, an already-exists and an email error in that order,
\* and the errors of row 2 come after them
C21_Witness ==
    /\ Validated
    /\ Len(arg.rows) >= 2
    /\ Len(result.errors) >= 4
    /\ result.errors[1].row = 1 /\ result.errors[1].rule = "required"
    /\ result.errors[2].row = 1 /\ result.errors[2].rule = "duplicate_in_store"
    /\ result.errors[3].row = 1 /\ result.errors[3].rule = "email"
    /\ result.errors[4].row = 2

\* C22: a blank raw value (empty, or white space only) is coerced to null
\* whatever the column: never to the number 0, never to an array.  (The
\* created_at column is left aside: a null there is stamped afterwards.)
C22_BlankBecomesNull ==
    Processed =>
        \A key \in (DOMAIN arg.row) \ {"created_at"} :
            (Trim(arg.row[key]) = <<>>) => (result.row[key] = NullV)

\* what Number gives for the numeric texts of the input rows
NumberOfText ==
    (<<"7">> :> 7) @@ (<<" ", "7">> :> 7) @@ (<<"1", "2">> :> 12)

\* C23: in a numeric column a non-blank value that parses as a number becomes
\* that number and one that does not parse stays the original text; the
\* field is never dropped.
C23_NumberOrOriginalText ==
    (/\ Processed
     /\ Has(arg.row, "program_id")
     /\ Trim(arg.row["program_id"]) # <<>>) =>
            /\ "program_id" \in DOMAIN result.row
            /\ result.row["program_id"]
               = IF arg.row["program_id"] \in DOMAIN NumberOfText
                 THEN NumV(NumberOfText[arg.row["program_id"]])
                 ELSE StrV(arg.row["program_id"])

\* "ab" in a numeric column stayed the text "ab"
C23_Witness ==
    /\ Processed
    /\ arg.row["program_id"] = <<"a", "b">>
    /\ result.row["program_id"] = StrV(<<"a", "b">>)

\* " 7" in a numeric column became the number 7
C23_WitnessNumber ==
    /\ Processed
    /\ arg.row["program_id"] = <<" ", "7">>
    /\ result.row["program_id"] = NumV(7)

\* what the array coercion is to give for the array texts of the input rows
ArrayOfText ==
    (<<"M", ",", " ", "T">> :> ArrV(<<StrV(<<"M">>), StrV(<<"T">>)>>))
    @@ (<<"[", "1", ",", "2", "]">> :> ArrV(<<NumV(1), NumV(2)>>))
    @@ (<<"[", "a", ",", "b", "]">>
            :> ArrV(<<StrV(<<"[", "a", ",", "b", "]">>)>>))
    @@ (<<"x">> :> ArrV(<<StrV(<<"x">>)>>))

\* C24: in an array column a non-blank value that is a bracketed list becomes
\* that list, one with a comma is split on commas and each piece trimmed, in
\* order, any other becomes a one-element array, and a bracketed value that
\* does not parse becomes a one-element array of the original text.
C24_ArrayCoercion ==
    (/\ Processed
     /\ Has(arg.row, "days_of_week")
     /\ Trim(arg.row["days_of_week"]) # <<>>) =>
            /\ arg.row["days_of_week"] \in DOMAIN ArrayOfText
            /\ result.row["days_of_week"]
               = ArrayOfText[arg.row["days_of_week"]]

\* "M, T" became ["M", "T"]
C24_Witness ==
    /\ Processed
    /\ Has(arg.row, "days_of_week")
    /\ arg.row["days_of_week"] = <<"M", ",", " ", "T">>
    /\ result.row["days_of_week"] = ArrV(<<StrV(<<"M">>), StrV(<<"T">>)>>)

\* the columns with a numeric, array or date designation
DesignatedColumns ==
    {"program_id", "program_2_id", "center_id", "number_of_sessions",
     "educator_employee_id", "secondary_educator_employee_id", "student_id",
     "enrollment_year", "days_of_week", "timings", "dob", "created_at"}

\* C25 (as claimed): the processed record has exactly the keys of the raw
\* row, and every column without designation carries its raw value unchanged.
C25_SameKeysRawValues ==
    Processed =>
        /\ DOMAIN result.row = DOMAIN arg.row
        /\ \A key \in (DOMAIN arg.row) \ DesignatedColumns :
              result.row[key] = StrV(arg.row[key])

\* C25 (amended): the processed record has the keys of the raw row and
\* created_at, no other; a column without designation carries its raw text
\* unchanged, white space included, except that the empty text becomes null.
C25_KeysPlusCreatedAtRawOrNull ==
    Processed =>
        /\ DOMAIN result.row = DOMAIN arg.row \cup {"created_at"}
        /\ \A key \in (DOMAIN arg.row) \ DesignatedColumns :
              result.row[key] = IF arg.row[key] = <<>> THEN NullV
                                ELSE StrV(arg.row[key])

\* a row without created_at column got the key, and its first_name " A" is
\* unchanged
C25_Witness ==
    /\ Processed
    /\ ~Has(arg.row, "created_at")
    /\ "created_at" \in DOMAIN result.row
    /\ arg.row["first_name"] = <<" ", "A">>
    /\ result.row["first_name"] = StrV(<<" ", "A">>)

\* C26 (as claimed): processing the same raw row twice gives identical
\* records, field by field.
C26_SameRecordTwice ==
    result.t = "again" => result.row2 = result.row

\* the two records of a row processed twice agree on every field, except a
\* created_at the step stamped itself, which holds the time of each run
AgreeButForStamp ==
    result.t = "again" =>
        /\ DOMAIN result.row2 = DOMAIN result.row
        /\ \A key \in DOMAIN result.row :
              IF key = "created_at" /\ ~Truthy(arg.row, "created_at")
              THEN /\ result.row[key] = StrV(NowISO(result.now))
                   /\ result.row2[key] = StrV(NowISO(result.now2))
              ELSE result.row2[key] = result.row[key]

\* C26 (amended): processing the same raw row twice gives records that are
\* identical field by field except for a created_at stamped by the step,
\* which is the time of each run; no step changes the raw row.
C26_SameRecordButForStamp ==
    /\ []AgreeButForStamp
    /\ [][arg' = arg]_vars

\* a row without created_at processed at two instants: two records that
\* differ, and only in created_at
C26_Witness ==
    /\ result.t = "again"
    /\ result.now2 # result.now
    /\ ~Truthy(arg.row, "created_at")
    /\ result.row2 # result.row
    /\ \A key \in (DOMAIN result.row) \ {"created_at"} :
          result.row2[key] = result.row[key]

\* ----------------------------------------------- answers that always come
\* The session with every awaited promise settling: file.text(), the fetch of
\* existing rows and bulkInsert each answer in the end, with a value or a
\* rejection.  An answer is enabled exactly while a call waits for it and any
\* answer ends the wait, so weak fairness of the rejecting answer of the fetch
\* says that the fetch does not stay pending and leaves its outcome free.
fetchRejects ==
    \E i \in 1..MaxUploads, fetch \in FetchOutcomes :
        fetch.kind = "throw" /\ fetchDone(i, fetch)

\* the sessions followed to their end: a students table over an empty store
\* and over one whose identifier the validator misses, and another table
InitFair ==
    /\ Init
    /\ tableName \in {"students", "courses"}
    /\ onCloseGiven
    /\ db \in {{}, {NumV(2)}}

SpecFair ==
    /\ InitFair /\ [][Next]_vars
    /\ WF_vars(\E i \in 1..MaxUploads, read \in ReadOutcomes : readDone(i, read))
    /\ WF_vars(fetchRejects)
    /\ WF_vars(\E i \in 1..MaxUploads, response \in InsertOutcomes :
                  insertDone(i, response))

\* C27: every upload that starts ends with isUploading back to false and
\* the Upload button enabled again for the selected file, whatever the
\* answers are.
C27_UploadEventuallyEnds ==
    isUploading ~> (~isUploading /\ attempts = <<>>)

\* an upload ended after bulkInsert threw, and the button is enabled again
C27_Witness ==
    /\ last.outcome = "error"
    /\ last.stage = "insert"
    /\ last.response.kind = "throw"
    /\ ~isUploading
    /\ UploadEnabled

\* ------------------------------------------------ the dashboard's navigation
\* The Index page: three selections (center, program, table), the handlers
\* that set them and the view renderContent shows for them.  The page state is
\* held in result, the last handler run and the selections before it in arg.
NumCenters == 3
NumPrograms == 3
NumTables == 3
Centers == 1..NumCenters
Programs == 1..NumPrograms
Tables == 1..NumTables

\* null of useState<Center | null>(null)
NoSelection == 0

Selections(nav) ==
    <<nav.selectedCenter, nav.selectedProgram, nav.selectedTable>>

\* the branch of renderContent taken
View(nav) ==
    IF nav.selectedTable # NoSelection /\ nav.selectedProgram # NoSelection
    THEN "FilteredTableView"
    ELSE IF nav.selectedProgram # NoSelection THEN "TableListWrapper"
    ELSE IF nav.selectedCenter # NoSelection THEN "ProgramList"
    ELSE "home"

ShowBackButton(nav) == nav.selectedCenter # NoSelection

AfterSelectCenter(nav, center) ==
    [nav EXCEPT !.selectedCenter = center,
                !.selectedProgram = NoSelection,
                !.selectedTable = NoSelection]

AfterSelectProgram(nav, program) ==
    [nav EXCEPT !.selectedProgram = program,
                !.selectedTable = NoSelection]

AfterSelectTable(nav, table) ==
    [nav EXCEPT !.selectedTable = table]

\* handleBack clearing the shallowest selection first
AfterBackShallowestFirst(nav) ==
    IF nav.selectedCenter # NoSelection
    THEN [nav EXCEPT !.selectedCenter = NoSelection]
    ELSE IF nav.selectedProgram # NoSelection
    THEN [nav EXCEPT !.selectedProgram = NoSelection]
    ELSE IF nav.selectedTable # NoSelection
    THEN [nav EXCEPT !.selectedTable = NoSelection]
    ELSE nav

AfterBack(nav) ==
    IF nav.selectedTable # NoSelection
    THEN [nav EXCEPT !.selectedTable = NoSelection]
    ELSE IF nav.selectedProgram # NoSelection
    THEN [nav EXCEPT !.selectedProgram = NoSelection]
    ELSE IF nav.selectedCenter # NoSelection
    THEN [nav EXCEPT !.selectedCenter = NoSelection]
    ELSE nav

\* what arg records of a handler run: its name, its argument, the selections
\* it found and the number of Back steps in a row it ends
Ran(op, value, nav, backs) ==
    [op |-> op, value |-> value, before |-> Selections(nav), backs |-> backs]

InitNav ==
    /\ SessionIdle
    /\ arg = [op |-> "mount", value |-> NoSelection,
              before |-> <<NoSelection, NoSelection, NoSelection>>,
              backs |-> 0]
    /\ result = [t |-> "nav", loading |-> TRUE, centersLoaded |-> FALSE,
                 selectedCenter |-> NoSelection,
                 selectedProgram |-> NoSelection,
                 selectedTable |-> NoSelection]

\* fetchCenters answers: with the centers, which are kept, or with nothing or
\* a rejection, which leaves the list empty; loading ends either way
loadCentersDone(ok) ==
    /\ result.loading
    /\ result' = [result EXCEPT !.loading = FALSE, !.centersLoaded = ok]
    /\ arg' = Ran("loadCenters", NoSelection, result, 0)
    /\ UNCHANGED sessionVars

\* a center is clicked in the CenterList of the home view
handleSelectCenter(center) ==
    /\ ~result.loading
    /\ View(result) = "home"
    /\ result' = AfterSelectCenter(result, center)
    /\ arg' = Ran("handleSelectCenter", center, result, 0)
    /\ UNCHANGED sessionVars

\* a program is clicked in the ProgramList
handleSelectProgram(program) ==
    /\ ~result.loading
    /\ View(result) = "ProgramList"
    /\ result' = AfterSelectProgram(result, program)
    /\ arg' = Ran("handleSelectProgram", program, result, 0)
    /\ UNCHANGED sessionVars

\* a table is clicked in the TableListWrapper
handleSelectTable(table) ==
    /\ ~result.loading
    /\ View(result) = "TableListWrapper"
    /\ result' = AfterSelectTable(result, table)
    /\ arg' = Ran("handleSelectTable", table, result, 0)
    /\ UNCHANGED sessionVars

\* the Back button of the Layout
handleBack ==
    /\ ~result.loading
    /\ ShowBackButton(result)
    /\ result' = AfterBack(result)
    /\ arg' = Ran("handleBack", NoSelection, result,
                  IF arg.op = "handleBack" THEN arg.backs + 1 ELSE 1)
    /\ UNCHANGED sessionVars

NextNav ==
    \/ \E ok \in BOOLEAN : loadCentersDone(ok)
    \/ \E center \in Centers : handleSelectCenter(center)
    \/ \E program \in Programs : handleSelectProgram(program)
    \/ \E table \in Tables : handleSelectTable(table)
    \/ handleBack

SpecNav == InitNav /\ [][NextNav]_vars

\* the number of selections made
Depth(selections) ==
    Cardinality({k \in 1..3 : selections[k] # NoSelection})

\* the deepest selection made, 0 at home
Deepest(selections) ==
    IF selections[3] # NoSelection THEN 3
    ELSE IF selections[2] # NoSelection THEN 2
    ELSE IF selections[1] # NoSelection THEN 1
    ELSE 0

\* C28: in every state of the dashboard a selected table comes with a
\* selected program and a selected program with a selected center; selecting
\* a center leaves program and table empty, selecting a program leaves the
\* table empty and the center as it was, Back empties the deepest selection
\* and nothing else, and after k Back steps in a row at most 3 - k
\* selections are left, so three Back steps end at the home view.
C28_SelectionHierarchy ==
    LET now == Selections(result)
    IN  /\ now[3] # NoSelection => now[2] # NoSelection
        /\ now[2] # NoSelection => now[1] # NoSelection
        /\ arg.op = "handleSelectCenter" =>
              now = <<arg.value, NoSelection, NoSelection>>
        /\ arg.op = "handleSelectProgram" =>
              now = <<arg.before[1], arg.value, NoSelection>>
        /\ arg.op = "handleSelectTable" =>
              now = <<arg.before[1], arg.before[2], arg.value>>
        /\ arg.op = "handleBack" =>
              /\ Deepest(arg.before) > 0
              /\ \A k \in 1..3 :
                    now[k] = IF k = Deepest(arg.before) THEN NoSelection
                             ELSE arg.before[k]
              /\ arg.backs + Depth(now) <= 3
              /\ arg.backs = 3 => View(result) = "home"

\* Back pressed three times in a row from a table view: the home view
C28_Witness ==
    /\ arg.op = "handleBack"
    /\ arg.backs = 3
    /\ arg.before[1] # NoSelection
    /\ Selections(result) = <<NoSelection, NoSelection, NoSelection>>

\* ------------------------------------------------------- the table view
\* One mounted TableView: its table prop, the rows and columns it shows, the
\* loads and updates it is waiting for and the row being edited inline.  The
\* component state is held in result; arg holds the last handler run, its
\* outcome and the number of loads and saves started so far.
MaxLoads == 3
MaxSaves == 2

\* TableInfo values the parent can pass: the students of two centers under
\* one id and name, and another table
TableInfo(id, name, center_id) ==
    [id |-> id, name |-> name, center_id |-> center_id]

TablePool ==
    {TableInfo(1, "students", 1), TableInfo(1, "students", 2),
     TableInfo(2, "educators", 1)}

\* useState<any[]>([]) before any rows were set
NoRows == <<"", 0>>

\* the rows fetchTableData(table.name, table.center_id) returns, known by
\* the table and the center they were fetched for
RowsFor(table) == <<table.name, table.center_id>>

NoErrors == [column \in {} |-> ""]

\* a call of loadTableData waiting for its columns
Load(table) == [table |-> table, stage |-> "columns"]

Without(seq, i) ==
    [k \in 1..(Len(seq) - 1) |-> IF k < i THEN seq[k] ELSE seq[k + 1]]

ColumnsOutcomes == {"columns", "none", "throw"}
DataOutcomes == {"rows", "none", "throw"}

\* loadTableData up to its first await: the closure's table is the one of the
\* render that created it
StartLoad(view, table) ==
    [view EXCEPT !.loading = TRUE,
                 !.error = "",
                 !.loads = Append(@, Load(table))]

Did(op, outcome, started, saved) ==
    [op |-> op, outcome |-> outcome, started |-> started, saved |-> saved]

\* the view after its first render and effects: subscribed, first load sent
InitLoad ==
    /\ SessionIdle
    /\ \E table \in TablePool :
          result = [t |-> "view",
                    table |-> table,
                    subscribed |-> table,
                    data |-> NoRows,
                    columns |-> "",
                    loading |-> TRUE,
                    error |-> "",
                    loads |-> <<Load(table)>>,
                    isEditing |-> FALSE,
                    editingRow |-> NullV,
                    validationErrors |-> NoErrors,
                    saves |-> <<>>]
    /\ arg = Did("mount", "", 1, 0)

\* the parent renders the view with another table: the subscription is set
\* up again when id or name changed, and loadTableData runs for the new table
tableChanged(table) ==
    /\ table # result.table
    /\ arg.started < MaxLoads
    /\ result' =
          StartLoad([result EXCEPT
                        !.table = table,
                        !.subscribed =
                            IF table.id # result.table.id
                               \/ table.name # result.table.name
                            THEN table ELSE @],
                    table)
    /\ arg' = Did("tableChanged", "", arg.started + 1, arg.saved)
    /\ UNCHANGED sessionVars

\* a change notification arrives on the channel: the callback calls the
\* loadTableData of the render that subscribed
changeReceived ==
    /\ arg.started < MaxLoads
    /\ result' = StartLoad(result, result.subscribed)
    /\ arg' = Did("changeReceived", "", arg.started + 1, arg.saved)
    /\ UNCHANGED sessionVars

\* fetchTableColumns answers load i
columnsDone(i, outcome) ==
    /\ i \in 1..Len(result.loads)
    /\ result.loads[i].stage = "columns"
    /\ result' =
          IF outcome = "throw"
          THEN [result EXCEPT !.error = "An unexpected error occurred",
                              !.loading = FALSE,
                              !.loads = Without(@, i)]
          ELSE [result EXCEPT
                   !.columns = IF outcome = "columns"
                               THEN result.loads[i].table.name ELSE @,
                   !.loads[i].stage = "data"]
    /\ arg' = Did("columnsDone", outcome, arg.started, arg.saved)
    /\ UNCHANGED sessionVars

\* fetchTableData answers load i
dataDone(i, outcome) ==
    /\ i \in 1..Len(result.loads)
    /\ result.loads[i].stage = "data"
    /\ result' =
          [result EXCEPT
              !.data = IF outcome = "rows"
                       THEN RowsFor(result.loads[i].table) ELSE @,
              !.error = IF outcome = "rows" THEN @
                        ELSE IF outcome = "none"
                        THEN "Failed to load table data"
                        ELSE "An unexpected error occurred",
              !.loading = FALSE,
              !.loads = Without(@, i)]
    /\ arg' = Did("dataDone", outcome, arg.started, arg.saved)
    /\ UNCHANGED sessionVars

\* Refresh in the table's actions, or Retry in the error display: the
\* loadTableData of the render on screen
refresh ==
    /\ ~result.loading
    /\ arg.started < MaxLoads
    /\ result' = StartLoad(result, result.table)
    /\ arg' = Did("refresh", "", arg.started + 1, arg.saved)
    /\ UNCHANGED sessionVars

\* the loads that can be pending at once
LoadSlots == 1..(MaxLoads + MaxSaves)

NextLoad ==
    \/ \E table \in TablePool : tableChanged(table)
    \/ changeReceived
    \/ refresh
    \/ \E i \in LoadSlots, outcome \in ColumnsOutcomes : columnsDone(i, outcome)
    \/ \E i \in LoadSlots, outcome \in DataOutcomes : dataDone(i, outcome)

SpecLoad == InitLoad /\ [][NextLoad]_vars

\* C29: when no load is pending and none has left an error, the rows in data
\* are those fetched for the table and center of the table prop.
C29_RowsOfCurrentTable ==
    (/\ result.loads = <<>>
     /\ result.error = ""
     /\ result.data # NoRows)
        => result.data = RowsFor(result.table)

\* ------------------------------------------------------ editing a row inline
\* The rows on screen, as far as editing reads them: an id, one editable
\* column and created_at, which the second row lacks.
RowIds == {1, 2}

ShownRow(id) ==
    [id |-> id,
     first_name |-> IF id = 1 THEN "Al" ELSE "Bo",
     created_at |-> IF id = 1 THEN "2024-01-02" ELSE ""]

EditColumns == {"first_name"}
EditValues == {"", "Cy"}

\* new Date().toISOString() at the time of the save
SaveStamp == "now"

\* error messages of the update, word by word
Quoted(column) == "\"" \o column \o "\""

NotNullNamed ==
    <<"null value in", "column", Quoted("first_name"),
      "violates not-null constraint">>
NotNullBare == <<"violates not-null constraint">>
ColumnUnknown == <<"column", Quoted("first_name"), "does not exist">>
DuplicateKey == <<"duplicate key value violates unique constraint">>

UpdateOutcomes ==
    {[kind |-> "ok", hasMessage |-> FALSE, message |-> <<>>],
     [kind |-> "throw", hasMessage |-> FALSE, message |-> <<>>],
     [kind |-> "error", hasMessage |-> FALSE, message |-> <<>>]}
    \cup {[kind |-> "error", hasMessage |-> TRUE, message |-> message] :
             message \in {NotNullNamed, NotNullBare, ColumnUnknown,
                          DuplicateKey, <<>>}}

\* error.message.includes('violates not-null constraint')
IncludesNotNull(message) ==
    \E k \in 1..Len(message) : message[k] = "violates not-null constraint"

\* error.message.match(/column "([^"]+)"/): the columns named, first match
ColumnsMatched(message) ==
    LET at == {k \in 1..(Len(message) - 1) :
                  /\ message[k] = "column"
                  /\ \E column \in EditColumns : message[k + 1] = Quoted(column)}
    IN  IF at = {} THEN {}
        ELSE LET first == CHOOSE k \in at : \A j \in at : k <= j
             IN  {column \in EditColumns : message[first + 1] = Quoted(column)}

RequiredMessage(column) == column \o " is required"

\* the table view is on screen: neither the spinner nor the error display
TableShown(view) == ~view.loading /\ view.error = ""

\* the answer of the update leaving edit mode whatever it is
AfterUpdateExitAlways(view, save, response) ==
    StartLoad([view EXCEPT !.isEditing = FALSE,
                           !.editingRow = NullV,
                           !.validationErrors = NoErrors],
              save.table)

\* handleSaveEdit from the answer of the update on
AfterUpdate(view, save, response) ==
    IF response.kind = "ok"
    THEN StartLoad([view EXCEPT !.isEditing = FALSE,
                                !.editingRow = NullV,
                                !.validationErrors = NoErrors],
                   save.table)
    ELSE IF /\ response.kind = "error"
            /\ response.hasMessage
            /\ IncludesNotNull(response.message)
            /\ ColumnsMatched(response.message) # {}
    THEN [view EXCEPT !.validationErrors =
             [column \in ColumnsMatched(response.message) |->
                 RequiredMessage(column)]]
    ELSE view

\* the view with its rows loaded and nothing pending
InitEdit ==
    /\ SessionIdle
    /\ \E table \in TablePool :
          result = [t |-> "view",
                    table |-> table,
                    subscribed |-> table,
                    data |-> RowsFor(table),
                    columns |-> table.name,
                    loading |-> FALSE,
                    error |-> "",
                    loads |-> <<>>,
                    isEditing |-> FALSE,
                    editingRow |-> NullV,
                    validationErrors |-> NoErrors,
                    saves |-> <<>>]
    /\ arg = Did("dataDone", "rows", 1, 0)

\* Edit is clicked on a row
handleEditClick(id) ==
    /\ TableShown(result)
    /\ result.data # NoRows
    /\ result' = [result EXCEPT !.editingRow = ShownRow(id),
                                !.isEditing = TRUE,
                                !.validationErrors = NoErrors]
    /\ arg' = Did("handleEditClick", "", arg.started, arg.saved)
    /\ UNCHANGED sessionVars

\* a field of the row being edited is changed
handleEditChange(column, value) ==
    /\ TableShown(result)
    /\ result.isEditing
    /\ result.editingRow # NullV
    /\ result' =
          [result EXCEPT
              !.editingRow = [@ EXCEPT ![column] = value],
              !.validationErrors =
                  [c \in (DOMAIN @) \ {column} |-> @[c]]]
    /\ arg' = Did("handleEditChange", "", arg.started, arg.saved)
    /\ UNCHANGED sessionVars

\* Save is clicked: created_at is stamped on the row in place when it has
\* none, and the update is sent
handleSaveEdit ==
    /\ TableShown(result)
    /\ result.isEditing
    /\ result.editingRow # NullV
    /\ arg.saved < MaxSaves
    /\ LET row == IF result.editingRow.created_at = ""
                  THEN [result.editingRow EXCEPT !.created_at = SaveStamp]
                  ELSE result.editingRow
       IN  result' =
              [result EXCEPT
                  !.editingRow = row,
                  !.saves = Append(@, [row |-> row, table |-> result.table])]
    /\ arg' = Did("handleSaveEdit", "", arg.started, arg.saved + 1)
    /\ UNCHANGED sessionVars

\* the update of save i answers
updateDone(i, response) ==
    /\ i \in 1..Len(result.saves)
    /\ result' =
          [AfterUpdate(result, result.saves[i], response)
              EXCEPT !.saves = Without(@, i)]
    /\ arg' = [op |-> "updateDone",
               outcome |-> response.kind,
               started |-> IF response.kind = "ok" THEN arg.started + 1
                           ELSE arg.started,
               saved |-> arg.saved,
               hasMessage |-> response.hasMessage,
               message |-> response.message]
    /\ UNCHANGED sessionVars

NextEdit ==
    \/ \E id \in RowIds : handleEditClick(id)
    \/ \E column \in EditColumns, value \in EditValues :
          handleEditChange(column, value)
    \/ handleSaveEdit
    \/ \E i \in 1..MaxSaves, response \in UpdateOutcomes : updateDone(i, response)
    \/ refresh
    \/ \E i \in LoadSlots, outcome \in ColumnsOutcomes : columnsDone(i, outcome)
    \/ \E i \in LoadSlots, outcome \in DataOutcomes : dataDone(i, outcome)

SpecEdit == InitEdit /\ [][NextEdit]_vars

\* C30: the step on which the update answers.  On success edit mode is
\* left, editingRow and validationErrors are cleared and one more load is
\* pending.  On an error or a thrown exception isEditing and editingRow
\* are as they were and no load is started or dropped; validationErrors is
\* replaced by the one message "<column> is required" exactly when the error's
\* message reports a not-null violation and names a column, and is as it
\* was otherwise.
C30_LeavesEditModeOnlyOnSuccess ==
    [][arg'.op = "updateDone" =>
          IF arg'.outcome = "ok"
          THEN /\ ~result'.isEditing
               /\ result'.editingRow = NullV
               /\ result'.validationErrors = NoErrors
               /\ Len(result'.loads) = Len(result.loads) + 1
               /\ result'.loads[Len(result'.loads)] = Load(result.table)
               /\ result'.loading
          ELSE /\ result'.isEditing = result.isEditing
               /\ result'.editingRow = result.editingRow
               /\ result'.loads = result.loads
               /\ result'.loading = result.loading
               /\ result'.data = result.data
               /\ IF /\ arg'.outcome = "error"
                     /\ arg'.hasMessage
                     /\ arg'.message = NotNullNamed
                  THEN /\ DOMAIN result'.validationErrors = {"first_name"}
                       /\ result'.validationErrors["first_name"] =
                             "first_name is required"
                  ELSE result'.validationErrors = result.validationErrors
    ]_vars

\* the update of an edited row was refused for a missing first name: still
\* in edit mode with the edit kept and the field's message set, nothing loading
C30_Witness ==
    /\ arg.op = "updateDone"
    /\ arg.outcome = "error"
    /\ arg.message = NotNullNamed
    /\ result.isEditing
    /\ result.editingRow # NullV
    /\ result.editingRow.first_name = ""
    /\ DOMAIN result.validationErrors = {"first_name"}
    /\ result.loads = <<>>

\* an update went through: out of edit mode and the reload pending
C30_WitnessSaved ==
    /\ arg.op = "updateDone"
    /\ arg.outcome = "ok"
    /\ ~result.isEditing
    /\ result.loads # <<>>

====
